---------------------------- MODULE Spec2Model ----------------------------
(***************************************************************************)
(* The Jit64 register cache (RegCache / GPRRegCache) as a state machine.   *)
(*                                                                         *)
(* The object state is the record rc, whose fields carry the names of the  *)
(* members of class RegCache.  Every member function is an operator from   *)
(* a cache record to a cache record.  The record also carries emitted, the *)
(* host instructions the call has written so far, and err, the first       *)
(* ASSERT/ASSERT_MSG of the call that failed: a failed assertion is fatal  *)
(* for the compilation, so the remaining statements of the call are        *)
(* skipped.  The actions at the end apply one public operation each; a     *)
(* call that fails is not a step, the compilation ends there.              *)
(***************************************************************************)
EXTENDS Integers, Sequences, FiniteSets, TLC

\* ------------------------------------------------------------- bounds
\* Number of guest registers of the bank that are modelled (32 in the source).
NumGuests == 3
\* Number of entries of ALLOCATION_ORDER that are modelled (11 in the source).
NumAlloc == 3
\* Number of handle objects (RCOpArg / RCX64Reg) that can be alive at once.
MaxHandles == 2
\* Number of distinct 32-bit literals constant propagation can supply.
NumImm == 1

\* ------------------------------------------------------------- registers
RAX == 0
INVALID_REG == 255

Guests == 0 .. (NumGuests - 1)

\* The SysV order: R12, R13, R14, R15, RSI, RDI, R8, R9, R10, R11, RCX.
FullAllocationOrder == <<12, 13, 14, 15, 6, 7, 8, 9, 10, 11, 1>>

\* The modelled order keeps the head of the source's order and its last
\* entry (RCX), so that it is not sorted by register number.
ALLOCATION_ORDER ==
    SubSeq(FullAllocationOrder, 1, NumAlloc - 1)
        \o <<FullAllocationOrder[Len(FullAllocationOrder)]>>

GetAllocatableRegisters == {ALLOCATION_ORDER[k] : k \in 1 .. Len(ALLOCATION_ORDER)}

\* The modelled host registers: the allocatable ones and RAX, which is not
\* allocatable and is the value of a default-initialised X64Reg.
Hosts == {RAX} \cup GetAllocatableRegisters

ImmValues == 0 .. (NumImm - 1)
NoImm == -1

Modes == {"Read", "Write", "ReadWrite"}
FlushModes == {"Full", "MaintainState", "Undirty"}
IgnoreDiscarded == {"No", "Yes"}

\* ------------------------------------------------------------- RCConstraint
NoConstraint ==
    [realized |-> "Invalid", write |-> FALSE, read |-> FALSE,
     kill_imm |-> FALSE, kill_mem |-> FALSE, revertable |-> FALSE]

IsRealized(c) == c.realized # "Invalid"

IsActive(c) ==
    IsRealized(c) \/ c.write \/ c.read \/ c.kill_imm \/ c.kill_mem \/ c.revertable

\* A faulty IsCompatible: the realized location is not looked at.
IsCompatibleAnywhere(c, mode, loc, should_revertable) ==
    IF should_revertable /\ ~c.revertable
    THEN FALSE
    ELSE CASE mode = "Read" -> c.read
           [] mode = "Write" -> c.write
           [] mode = "ReadWrite" -> c.read /\ c.write

IsCompatible(c, mode, loc, should_revertable) ==
    IF should_revertable /\ ~c.revertable
    THEN FALSE
    ELSE LET is_loc_compatible ==
                 CASE loc = "Bound" -> c.realized = "Bound"
                   [] loc = "BoundOrImm" -> c.realized \in {"Bound", "Imm"}
                   [] loc = "BoundOrMem" -> c.realized \in {"Bound", "Mem"}
                   [] loc = "Any" -> TRUE
             is_mode_compatible ==
                 CASE mode = "Read" -> c.read
                   [] mode = "Write" -> c.write
                   [] mode = "ReadWrite" -> c.read /\ c.write
         IN  is_loc_compatible /\ is_mode_compatible

\* A faulty AddConstraint: the request replaces the access flags instead of
\* being or-ed into them.
AddConstraintOverwrite(c, mode, loc, should_revertable) ==
    IF IsRealized(c)
    THEN c
    ELSE [c EXCEPT
            !.revertable = @ \/ should_revertable,
            !.kill_imm = @ \/ (loc \in {"Bound", "BoundOrMem"}),
            !.kill_mem = @ \/ (loc \in {"Bound", "BoundOrImm"}),
            !.read = mode \in {"Read", "ReadWrite"},
            !.write = mode \in {"Write", "ReadWrite"}]

\* The constraint record after AddConstraint on a record that is not realized.
AddConstraint(c, mode, loc, should_revertable) ==
    IF IsRealized(c)
    THEN c
    ELSE [c EXCEPT
            !.revertable = @ \/ should_revertable,
            !.kill_imm = @ \/ (loc \in {"Bound", "BoundOrMem"}),
            !.kill_mem = @ \/ (loc \in {"Bound", "BoundOrImm"}),
            !.read = @ \/ (mode \in {"Read", "ReadWrite"}),
            !.write = @ \/ (mode \in {"Write", "ReadWrite"})]

\* The handle kinds with the ConstraintLoc and revertability each one adds.
HandleKinds == {"Use", "UseNoImm", "BindOrImm", "Bind", "RevertableBind"}

\* A faulty table: no kind restricts the location.
KindLocAny(kind) == "Any"

KindLoc(kind) ==
    CASE kind = "Use" -> "Any"
      [] kind = "UseNoImm" -> "BoundOrMem"
      [] kind = "BindOrImm" -> "BoundOrImm"
      [] kind = "Bind" -> "Bound"
      [] kind = "RevertableBind" -> "Bound"

KindRevertable(kind) == kind = "RevertableBind"


\* ------------------------------------------------------------- analyzer input
\* The analyzed block the recompiler walks: per op the guest registers it
\* reads (regsIn) and those GetRegUtilization reports for it.
Block ==
    << [regsIn |-> {0, 1}, gprWillBeRead |-> {0, 1}, gprWillBeWritten |-> {2}],
       [regsIn |-> {2},    gprWillBeRead |-> {2},    gprWillBeWritten |-> {0}],
       [regsIn |-> {1},    gprWillBeRead |-> {1},    gprWillBeWritten |-> {1}],
       [regsIn |-> {0},    gprWillBeRead |-> {0},    gprWillBeWritten |-> {}] >>

\* js.op and js.instructionsLeft while op number i of the block is compiled.
JitStates == {[op |-> i, instructionsLeft |-> Len(Block) - i] : i \in 1 .. Len(Block)}

Min(a, b) == IF a < b THEN a ELSE b

\* std::bit_width
RECURSIVE bit_width(_)
bit_width(n) == IF n = 0 THEN 0 ELSE 1 + bit_width(n \div 2)

\* ------------------------------------------------------------- cache record
Ok(s) == s.err = "none"

Fail(s, e) == IF Ok(s) THEN [s EXCEPT !.err = e] ELSE s

Emit(s, ins) == [s EXCEPT !.emitted = Append(@, ins)]

\* RegCache::Start on a cache s (the members Start assigns; m_hosts_is_locked
\* is not among them).
Start(s) ==
    [s EXCEPT
       !.m_hosts_guest_reg = [x \in Hosts |-> 0],
       !.m_hosts_free = Hosts,
       !.m_hosts_locked = [x \in Hosts |-> 0],
       !.m_guests_host_register = [p \in Guests |-> RAX],
       !.m_guests_in_default_location = Guests,
       !.m_guests_in_host_register = {},
       !.m_guests_revertable = {},
       !.m_guests_locked = [p \in Guests |-> 0],
       !.m_guests_is_locked = {},
       !.m_guests_constraints = [p \in Guests |-> NoConstraint]]

\* The members as the constructor leaves them, with an empty constant
\* propagation table (gpr_const), no code emitted and no failure recorded.
Constructed ==
    [m_hosts_guest_reg |-> [x \in Hosts |-> 0],
     m_hosts_free |-> Hosts,
     m_hosts_locked |-> [x \in Hosts |-> 0],
     m_hosts_is_locked |-> {},
     m_guests_in_default_location |-> Guests,
     m_guests_host_register |-> [p \in Guests |-> RAX],
     m_guests_in_host_register |-> {},
     m_guests_revertable |-> {},
     m_guests_locked |-> [p \in Guests |-> 0],
     m_guests_is_locked |-> {},
     m_guests_constraints |-> [p \in Guests |-> NoConstraint],
     gpr_const |-> [p \in Guests |-> NoImm],
     emitted |-> << >>,
     err |-> "none"]

\* GPRRegCache::IsImm
IsImm(s, preg) == s.gpr_const[preg] # NoImm

\* RegCache::IsBound
IsBound(s, preg) == preg \in s.m_guests_in_host_register

\* A faulty StoreRegister: the value of an immediate is not written back.
StoreRegisterNoImm(s, preg, ignore_discarded_registers) ==
    IF ~Ok(s) THEN s
    ELSE IF preg \in s.m_guests_in_host_register
    THEN Emit(s, <<"store_reg", preg, s.m_guests_host_register[preg]>>)
    ELSE IF IsImm(s, preg) \/ ignore_discarded_registers = "Yes"
    THEN s
    ELSE Fail(s, "StoreOfDiscarded")

\* GPRRegCache::StoreRegister to the default location of preg
StoreRegister(s, preg, ignore_discarded_registers) ==
    IF ~Ok(s) THEN s
    ELSE IF preg \in s.m_guests_in_host_register
    THEN LET xr == s.m_guests_host_register[preg]
         IN  Emit(s, <<"store_reg", preg, xr>>)
    ELSE IF IsImm(s, preg)
    THEN Emit(s, <<"store_imm", preg, s.gpr_const[preg]>>)
    ELSE IF ignore_discarded_registers = "No"
    THEN Fail(s, "StoreOfDiscarded")
    ELSE s

\* GPRRegCache::LoadRegister
LoadRegister(s, preg, new_loc) ==
    IF ~Ok(s) THEN s
    ELSE IF IsImm(s, preg)
    THEN Emit(s, <<"load_imm", new_loc, s.gpr_const[preg]>>)
    ELSE IF preg \notin s.m_guests_in_default_location
    THEN Fail(s, "LoadNotInDefaultLocation")
    ELSE Emit(s, <<"load_mem", new_loc, preg>>)

\* GPRRegCache::DiscardImm
DiscardImm(s, preg) == [s EXCEPT !.gpr_const[preg] = NoImm]

\* The flags RegCache::StoreFromRegister updates once the store is emitted.
StoreFromRegisterFlags(s, i, mode) ==
    IF ~Ok(s) THEN s
    ELSE [s EXCEPT
            !.m_hosts_free =
                IF mode = "Full" /\ i \in s.m_guests_in_host_register
                THEN @ \cup {s.m_guests_host_register[i]}
                ELSE @,
            !.m_guests_in_host_register = IF mode = "Full" THEN @ \ {i} ELSE @,
            !.m_guests_in_default_location =
                IF mode # "MaintainState" THEN @ \cup {i} ELSE @]

\* A faulty StoreFromRegister: the flags are updated and no store is emitted.
StoreFromRegisterNoStore(s, i, mode, ignore_discarded_registers) ==
    IF ~Ok(s) THEN s
    ELSE IF i \in s.m_guests_revertable
    THEN Fail(s, "RevertableDuringFlush")
    ELSE StoreFromRegisterFlags(s, i, mode)

\* RegCache::StoreFromRegister
StoreFromRegister(s, i, mode, ignore_discarded_registers) ==
    IF ~Ok(s) THEN s
    ELSE IF i \in s.m_guests_revertable
    THEN Fail(s, "RevertableDuringFlush")
    ELSE StoreFromRegisterFlags(
             IF i \notin s.m_guests_in_default_location
             THEN StoreRegister(s, i, ignore_discarded_registers)
             ELSE s,
             i, mode)

\* GPRRegCache::GetRegUtilization
GetRegUtilization(js) == Block[js.op].gprWillBeRead \cup Block[js.op].gprWillBeWritten

\* GPRRegCache::CountRegsIn: the registers read by op[1] .. op[lookahead - 1],
\* up to and including the first op that reads preg.
RECURSIVE CountRegsInFrom(_, _, _, _, _)
CountRegsInFrom(js, preg, lookahead, i, regs_used) ==
    IF i >= lookahead THEN regs_used
    ELSE LET regs_in == Block[js.op + i].regsIn
         IN  IF preg \in regs_in
             THEN regs_used \cup regs_in
             ELSE CountRegsInFrom(js, preg, lookahead, i + 1, regs_used \cup regs_in)

CountRegsIn(js, preg, lookahead) == CountRegsInFrom(js, preg, lookahead, 1, {})

\* floor(log2(n)) for n >= 1
FloorLog2(n) == CHOOSE e \in 0 .. n : 2 ^ e <= n /\ n < 2 ^ (e + 1)

\* A faulty bias: the logarithm is taken for the bit width.
UseBiasOfLog2(regs_in_count) == 1 + 2 * (6 - FloorLog2(1 + regs_in_count))

\* The term RegCache::ScoreRegister adds for a register the instruction uses.
UseBias(regs_in_count) == 1 + 2 * (6 - bit_width(1 + regs_in_count))

\* RegCache::ScoreRegister
ScoreRegister(s, xreg, js) ==
    LET preg == s.m_hosts_guest_reg[xreg]
        dirty == IF preg \notin s.m_guests_in_default_location THEN 2 ELSE 0
        lookahead == Min(js.instructionsLeft, 64)
        regs_in_count == Cardinality(CountRegsIn(js, preg, lookahead))
        use == IF preg \in GetRegUtilization(js)
               THEN UseBias(regs_in_count)
               ELSE 0
    IN  dirty + use

\* ALLOCATION_ORDER of the FPR bank: XMM6 .. XMM15, then XMM2 .. XMM5.
FPU_ALLOCATION_ORDER == <<6, 7, 8, 9, 10, 11, 12, 13, 14, 15, 2, 3, 4, 5>>

\* FPURegCache::FirstFreeRegister
FPUFirstFreeRegister(free_registers) ==
    LET hits == {k \in 1 .. Len(FPU_ALLOCATION_ORDER) :
                    FPU_ALLOCATION_ORDER[k] \in free_registers}
    IN  IF hits = {} THEN INVALID_REG
        ELSE FPU_ALLOCATION_ORDER[CHOOSE k \in hits : \A j \in hits : k <= j]

\* A faulty FirstFreeRegister: the free register with the lowest number.
FirstFreeRegisterByNumber(free_registers) ==
    IF free_registers \cap GetAllocatableRegisters = {} THEN INVALID_REG
    ELSE CHOOSE x \in free_registers \cap GetAllocatableRegisters :
             \A y \in free_registers \cap GetAllocatableRegisters : x <= y

\* GPRRegCache::FirstFreeRegister: the first entry of ALLOCATION_ORDER in the set
FirstFreeRegister(free_registers) ==
    LET hits == {k \in 1 .. Len(ALLOCATION_ORDER) : ALLOCATION_ORDER[k] \in free_registers}
    IN  IF hits = {} THEN INVALID_REG
        ELSE ALLOCATION_ORDER[CHOOSE k \in hits : \A j \in hits : k <= j]

\* RegCache::NumFreeRegisters
NumFreeRegisters(s) ==
    Cardinality((s.m_hosts_free \ s.m_hosts_is_locked) \cap GetAllocatableRegisters)

\* free_registers of RegCache::GetFreeXReg
FreeRegisters(s) == (s.m_hosts_free \ s.m_hosts_is_locked) \cap GetAllocatableRegisters

\* A faulty candidate loop: the lock of the guest register is not looked at.
SpillCandidatesLocked(s) == GetAllocatableRegisters \ s.m_hosts_is_locked

\* The host registers the heuristic loop of GetFreeXReg scores.
SpillCandidates(s) ==
    {xreg \in GetAllocatableRegisters \ s.m_hosts_is_locked :
        s.m_hosts_guest_reg[xreg] \notin s.m_guests_is_locked}

\* best_xreg of RegCache::GetFreeXReg: the loop visits the candidates by
\* increasing register number and keeps the first one with the strictly
\* smallest score.
BestXReg(s, js) ==
    CHOOSE x \in SpillCandidates(s) :
        \A y \in SpillCandidates(s) :
            \/ ScoreRegister(s, x, js) < ScoreRegister(s, y, js)
            \/ ScoreRegister(s, x, js) = ScoreRegister(s, y, js) /\ x <= y

\* The spill of RegCache::GetFreeXReg: best_preg is stored and best_xreg returned.
SpillXReg(s, best_xreg) ==
    [st |-> StoreFromRegister(s, s.m_hosts_guest_reg[best_xreg], "Full", "No"),
     xr |-> best_xreg]

\* RegCache::GetFreeXReg: the cache afterwards and the register returned.
GetFreeXReg(s, js) ==
    IF ~Ok(s) THEN [st |-> s, xr |-> INVALID_REG]
    ELSE IF FreeRegisters(s) # {}
    THEN [st |-> s, xr |-> FirstFreeRegister(FreeRegisters(s))]
    ELSE IF SpillCandidates(s) # {}
    THEN SpillXReg(s, BestXReg(s, js))
    ELSE [st |-> Fail(s, "OutOfRegisters"), xr |-> INVALID_REG]

\* RegCache::BindToRegister, the host side: the register g.xr that
\* GetFreeXReg returned is taken for the guest register i.
BindHostRegister(g, i) ==
    IF ~Ok(g.st) THEN g
    ELSE IF g.xr \in g.st.m_hosts_is_locked
    THEN [g EXCEPT !.st = Fail(g.st, "GetFreeXRegReturnedLocked")]
    ELSE IF i \in g.st.m_guests_revertable
    THEN [g EXCEPT !.st = Fail(g.st, "InvalidTransactionState")]
    ELSE [g EXCEPT !.st = [g.st EXCEPT !.m_hosts_free = @ \ {g.xr},
                                       !.m_hosts_guest_reg[g.xr] = i]]

\* RegCache::BindToRegister, the load of the old value.
BindLoadRegister(g, i, doLoad) ==
    IF doLoad THEN [g EXCEPT !.st = LoadRegister(g.st, i, g.xr)] ELSE g

\* RegCache::BindToRegister, the guest side.
BindGuestRegister(g, i) ==
    IF ~Ok(g.st) THEN g.st
    ELSE IF \E r \in g.st.m_guests_in_host_register : g.st.m_guests_host_register[r] = g.xr
    THEN Fail(g.st, "DoubleBind")
    ELSE [g.st EXCEPT !.m_guests_in_host_register = @ \cup {i},
                      !.m_guests_host_register[i] = g.xr]

\* A faulty makeDirty: the immediate of the register is kept.
BindMakeDirtyKeepsImm(s, i, makeDirty) ==
    IF Ok(s) /\ makeDirty
    THEN [s EXCEPT !.m_guests_in_default_location = @ \ {i}]
    ELSE s

\* RegCache::BindToRegister, makeDirty.
BindMakeDirty(s, i, makeDirty) ==
    IF Ok(s) /\ makeDirty
    THEN DiscardImm([s EXCEPT !.m_guests_in_default_location = @ \ {i}], i)
    ELSE s

\* RegCache::BindToRegister, its closing assertion on RX(i).
BindCheckUnlocked(s, i) ==
    IF Ok(s) /\ s.m_guests_host_register[i] \in s.m_hosts_is_locked
    THEN Fail(s, "BoundToLockedXReg")
    ELSE s

\* RegCache::BindToRegister
BindToRegister(s, i, doLoad, makeDirty, js) ==
    IF ~Ok(s) THEN s
    ELSE BindCheckUnlocked(
             BindMakeDirty(
                 IF i \notin s.m_guests_in_host_register
                 THEN BindGuestRegister(
                          BindLoadRegister(BindHostRegister(GetFreeXReg(s, js), i), i, doLoad),
                          i)
                 ELSE s,
                 i, makeDirty),
             i)

\* Ascending enumeration of a set of register numbers (BitSet iteration order).
RECURSIVE SetToSeq(_)
SetToSeq(S) ==
    IF S = {} THEN << >>
    ELSE LET m == CHOOSE a \in S : \A b \in S : a <= b
         IN  <<m>> \o SetToSeq(S \ {m})

\* RCConstraint::Realized on the record of preg
Realized(s, preg, loc) ==
    IF Ok(s) THEN [s EXCEPT !.m_guests_constraints[preg].realized = loc] ELSE s

\* m_guests_revertable[preg] = true in RegCache::Realize
SetRevertable(s, preg) ==
    IF Ok(s) THEN [s EXCEPT !.m_guests_revertable = @ \cup {preg}] ELSE s

\* RegCache::Realize(preg)
Realize(s, preg, js) ==
    LET c == s.m_guests_constraints[preg]
        do_bind(t) == Realized(BindToRegister(t, preg, c.read, c.write, js), preg, "Bound")
    IN  IF ~Ok(s) \/ IsRealized(c) THEN s
        ELSE IF c.revertable
        THEN SetRevertable(do_bind(StoreFromRegister(s, preg, "Undirty", "No")), preg)
        ELSE IF IsImm(s, preg)
        THEN IF c.write \/ c.kill_imm THEN do_bind(s) ELSE Realized(s, preg, "Imm")
        ELSE IF preg \notin s.m_guests_in_host_register
        THEN IF c.kill_mem THEN do_bind(s) ELSE Realized(s, preg, "Mem")
        ELSE do_bind(s)

\* A faulty first loop of Flush: nothing is stored.
FlushStoresNothing(s, todo, ignore_discarded_registers) == s

\* The stores of the first loop of RegCache::Flush, in iteration order.
RECURSIVE FlushStores(_, _, _)
FlushStores(s, todo, ignore_discarded_registers) ==
    IF todo = << >> THEN s
    ELSE FlushStores(StoreRegister(s, Head(todo), ignore_discarded_registers),
                     Tail(todo), ignore_discarded_registers)

\* A faulty Flush: the flushed registers are not marked as being in their
\* default location.
FlushFlagsKeepDefault(s, pregs, mode) ==
    IF ~Ok(s) THEN s
    ELSE [s EXCEPT
            !.m_hosts_free =
                IF mode = "Full"
                THEN @ \cup {s.m_guests_host_register[i] :
                                i \in pregs \cap s.m_guests_in_host_register}
                ELSE @,
            !.m_guests_in_host_register = IF mode = "Full" THEN @ \ pregs ELSE @]

\* A faulty Flush: MaintainState marks the registers clean as Undirty does.
FlushFlagsAlwaysClean(s, pregs, mode) ==
    IF ~Ok(s) THEN s
    ELSE [s EXCEPT
            !.m_hosts_free =
                IF mode = "Full"
                THEN @ \cup {s.m_guests_host_register[i] :
                                i \in pregs \cap s.m_guests_in_host_register}
                ELSE @,
            !.m_guests_in_host_register = IF mode = "Full" THEN @ \ pregs ELSE @,
            !.m_guests_in_default_location = @ \cup pregs]

\* The flags RegCache::Flush updates once the stores are emitted.
FlushFlags(s, pregs, mode) ==
    IF ~Ok(s) THEN s
    ELSE [s EXCEPT
            !.m_hosts_free =
                IF mode = "Full"
                THEN @ \cup {s.m_guests_host_register[i] :
                                i \in pregs \cap s.m_guests_in_host_register}
                ELSE @,
            !.m_guests_in_host_register = IF mode = "Full" THEN @ \ pregs ELSE @,
            !.m_guests_in_default_location =
                IF mode # "MaintainState" THEN @ \cup pregs ELSE @]

\* A faulty Flush: the assertion on the revertable registers is missing.
FlushUnchecked(s, pregs, mode, ignore_discarded_registers) ==
    IF ~Ok(s) THEN s
    ELSE IF s.m_hosts_is_locked # {} THEN Fail(s, "LockedDuringFlush")
    ELSE IF pregs \cap s.m_guests_is_locked # {} THEN Fail(s, "LockedDuringFlush")
    ELSE FlushFlags(FlushStores(s, SetToSeq(pregs \ s.m_guests_in_default_location),
                                ignore_discarded_registers),
                    pregs, mode)

\* RegCache::Flush(pregs, mode, ignore_discarded_registers)
Flush(s, pregs, mode, ignore_discarded_registers) ==
    IF ~Ok(s) THEN s
    ELSE IF s.m_hosts_is_locked # {} THEN Fail(s, "LockedDuringFlush")
    ELSE IF pregs \cap s.m_guests_is_locked # {} THEN Fail(s, "LockedDuringFlush")
    ELSE IF pregs \cap s.m_guests_revertable # {} THEN Fail(s, "RevertableDuringFlush")
    ELSE FlushFlags(FlushStores(s, SetToSeq(pregs \ s.m_guests_in_default_location),
                                ignore_discarded_registers),
                    pregs, mode)

\* A faulty Discard: the host registers of the discarded registers stay taken.
DiscardKeepsHosts(s, pregs) ==
    IF ~Ok(s) THEN s
    ELSE IF s.m_hosts_is_locked # {} THEN Fail(s, "LockedDuringDiscard")
    ELSE IF pregs \cap s.m_guests_is_locked # {} THEN Fail(s, "LockedDuringDiscard")
    ELSE IF pregs \cap s.m_guests_revertable # {} THEN Fail(s, "RevertableDuringDiscard")
    ELSE [s EXCEPT
            !.m_guests_in_default_location = @ \ pregs,
            !.m_guests_in_host_register = @ \ pregs]

\* RegCache::Discard(pregs)
Discard(s, pregs) ==
    IF ~Ok(s) THEN s
    ELSE IF s.m_hosts_is_locked # {} THEN Fail(s, "LockedDuringDiscard")
    ELSE IF pregs \cap s.m_guests_is_locked # {} THEN Fail(s, "LockedDuringDiscard")
    ELSE IF pregs \cap s.m_guests_revertable # {} THEN Fail(s, "RevertableDuringDiscard")
    ELSE [s EXCEPT
            !.m_hosts_free =
                @ \cup {s.m_guests_host_register[i] :
                           i \in pregs \cap s.m_guests_in_host_register},
            !.m_guests_in_default_location = @ \ pregs,
            !.m_guests_in_host_register = @ \ pregs]

\* A faulty Reset: bound registers are reset as well.
ResetUnchecked(s, pregs) ==
    IF ~Ok(s) THEN s
    ELSE [s EXCEPT !.m_guests_in_default_location = @ \cup pregs]

\* RegCache::Reset(pregs)
Reset(s, pregs) ==
    IF ~Ok(s) THEN s
    ELSE IF pregs \cap s.m_guests_in_host_register # {} THEN Fail(s, "ResetOfBoundRegister")
    ELSE [s EXCEPT !.m_guests_in_default_location = @ \cup pregs]

\* RegCache::IsAnyConstraintActive
IsAnyConstraintActive(s) == \E p \in Guests : IsActive(s.m_guests_constraints[p])

\* RegCache::IsAllUnlocked
IsAllUnlocked(s) ==
    s.m_hosts_is_locked = {} /\ s.m_guests_is_locked = {} /\ ~IsAnyConstraintActive(s)

\* RegCache::RegistersRevertable (the value returned when its assertion holds)
RegistersRevertable(s) == s.m_guests_revertable

\* A faulty Commit: the committed registers are also marked as written back.
CommitMarksDefault(s) ==
    IF ~Ok(s) THEN s
    ELSE IF ~IsAllUnlocked(s) THEN Fail(s, "NotAllUnlocked")
    ELSE [s EXCEPT !.m_guests_in_default_location = @ \cup s.m_guests_revertable,
                   !.m_guests_revertable = {}]

\* RegCache::Commit
Commit(s) ==
    IF ~Ok(s) THEN s
    ELSE IF ~IsAllUnlocked(s) THEN Fail(s, "NotAllUnlocked")
    ELSE [s EXCEPT !.m_guests_revertable = {}]

\* A faulty loop body of PreloadRegisters: the arguments doLoad and makeDirty
\* of BindToRegister are exchanged.
PreloadOneDirty(s, preg, js) ==
    IF ~IsImm(s, preg) THEN BindToRegister(s, preg, FALSE, TRUE, js) ELSE s

\* The body of the loop of RegCache::PreloadRegisters once a register is free.
PreloadOne(s, preg, js) ==
    IF ~IsImm(s, preg) THEN BindToRegister(s, preg, TRUE, FALSE, js) ELSE s

\* A faulty loop: it goes on down to the last free register.
RECURSIVE PreloadLoopToTheLast(_, _, _)
PreloadLoopToTheLast(s, todo, js) ==
    IF todo = << >> \/ ~Ok(s) THEN s
    ELSE IF NumFreeRegisters(s) < 1 THEN s
    ELSE PreloadLoopToTheLast(PreloadOne(s, Head(todo), js), Tail(todo), js)

\* The loop of RegCache::PreloadRegisters over the registers still to visit.
RECURSIVE PreloadLoop(_, _, _)
PreloadLoop(s, todo, js) ==
    IF todo = << >> \/ ~Ok(s) THEN s
    ELSE IF NumFreeRegisters(s) < 2 THEN s
    ELSE PreloadLoop(PreloadOne(s, Head(todo), js), Tail(todo), js)

\* RegCache::PreloadRegisters(to_preload)
PreloadRegisters(s, to_preload, js) ==
    PreloadLoop(s, SetToSeq(to_preload \ s.m_guests_in_host_register), js)

\* RegCache::RegistersInUse
RegistersInUse(s) == (Hosts \ s.m_hosts_free) \cup s.m_hosts_is_locked

\* A faulty FlushX: the guest register that occupies reg stays bound.
FlushXKeepsBinding(s, reg) ==
    IF ~Ok(s) THEN s
    ELSE IF reg \in s.m_hosts_is_locked THEN Fail(s, "XRegLocked")
    ELSE s

\* RegCache::FlushX(reg)
FlushX(s, reg) ==
    IF ~Ok(s) THEN s
    ELSE IF reg \in s.m_hosts_is_locked THEN Fail(s, "XRegLocked")
    ELSE IF reg \notin s.m_hosts_free
    THEN StoreFromRegister(s, s.m_hosts_guest_reg[reg], "Full", "No")
    ELSE s

\* RegCache::DiscardRegister(preg)
DiscardRegister(s, preg) ==
    [s EXCEPT
       !.m_hosts_free = IF preg \in s.m_guests_in_host_register
                        THEN @ \cup {s.m_guests_host_register[preg]}
                        ELSE @,
       !.m_guests_in_default_location = @ \ {preg},
       !.m_guests_in_host_register = @ \ {preg}]

\* GPRRegCache::SetImmediate32(preg, imm_value, dirty)
SetImmediate32(s, preg, imm_value, dirty) ==
    [(IF dirty THEN DiscardRegister(s, preg) ELSE s) EXCEPT !.gpr_const[preg] = imm_value]

\* The lock counts are u8: 2^8 values.
U8Values == 256

\* RegCache::Lock(preg)
Lock(s, preg) ==
    IF ~Ok(s) THEN s
    ELSE [s EXCEPT !.m_guests_locked[preg] = (@ + 1) % U8Values,
                   !.m_guests_is_locked = @ \cup {preg}]

\* A faulty Unlock: the constraint record outlives the last lock.
UnlockKeepsConstraint(s, preg) ==
    LET n == (s.m_guests_locked[preg] + U8Values - 1) % U8Values
    IN  IF ~Ok(s) THEN s
        ELSE [s EXCEPT !.m_guests_locked[preg] = n,
                       !.m_guests_is_locked = IF n = 0 THEN @ \ {preg} ELSE @]

\* A faulty Unlock: every release clears the constraint record.
UnlockClearsAlways(s, preg) ==
    LET n == (s.m_guests_locked[preg] + U8Values - 1) % U8Values
    IN  IF ~Ok(s) THEN s
        ELSE [s EXCEPT !.m_guests_locked[preg] = n,
                       !.m_guests_is_locked = IF n = 0 THEN @ \ {preg} ELSE @,
                       !.m_guests_constraints[preg] = NoConstraint]

\* RegCache::Unlock(preg)
Unlock(s, preg) ==
    LET n == (s.m_guests_locked[preg] + U8Values - 1) % U8Values
    IN  IF ~Ok(s) THEN s
        ELSE IF n = 0
        THEN [s EXCEPT !.m_guests_locked[preg] = n,
                       !.m_guests_is_locked = @ \ {preg},
                       !.m_guests_constraints[preg] = NoConstraint]
        ELSE [s EXCEPT !.m_guests_locked[preg] = n]

\* RegCache::LockX(xr)
LockX(s, xr) ==
    IF ~Ok(s) THEN s
    ELSE [s EXCEPT !.m_hosts_locked[xr] = (@ + 1) % U8Values,
                   !.m_hosts_is_locked = @ \cup {xr}]

\* RegCache::UnlockX(xr)
UnlockX(s, xr) ==
    IF ~Ok(s) THEN s
    ELSE IF ~(s.m_hosts_locked[xr] > 0 /\ xr \in s.m_hosts_is_locked)
    THEN Fail(s, "UnlockXNotLocked")
    ELSE LET n == s.m_hosts_locked[xr] - 1
         IN  [s EXCEPT !.m_hosts_locked[xr] = n,
                       !.m_hosts_is_locked = IF n > 0 THEN @ \cup {xr} ELSE @ \ {xr}]

\* RegCache::Use, UseNoImm, BindOrImm, Bind, RevertableBind: the constraint is
\* added (or checked, on a realized record) and the new handle locks preg.
TakeHandle(s, kind, preg, mode) ==
    LET c == s.m_guests_constraints[preg]
    IN  IF ~Ok(s) THEN s
        ELSE IF IsRealized(c) /\ ~IsCompatible(c, mode, KindLoc(kind), KindRevertable(kind))
        THEN Fail(s, "ConstraintConflict")
        ELSE Lock([s EXCEPT !.m_guests_constraints[preg] =
                                AddConstraint(c, mode, KindLoc(kind), KindRevertable(kind))],
                  preg)

\* RegCache::Scratch(xr): the register is flushed and the new handle locks it.
ScratchX(s, xr) == LockX(FlushX(s, xr), xr)

\* RegCache::Scratch(), given what GetFreeXReg returned.
ScratchFreeXReg(g) == [st |-> ScratchX(g.st, g.xr), xr |-> g.xr]

\* RegCache::Scratch(): the cache afterwards and the register of the handle.
Scratch(s, js) == ScratchFreeXReg(GetFreeXReg(s, js))

\* A faulty SanityCheck: locks and transactions are not looked at.
SanityCheckOfTables(s) ==
    \A i \in s.m_guests_in_host_register :
        s.m_hosts_guest_reg[s.m_guests_host_register[i]] = i

\* RegCache::SanityCheck
SanityCheck(s) ==
    /\ s.m_guests_in_host_register \cap (s.m_guests_is_locked \cup s.m_guests_revertable) = {}
    /\ \A i \in s.m_guests_in_host_register :
          LET xr == s.m_guests_host_register[i]
          IN  xr \notin s.m_hosts_is_locked /\ s.m_hosts_guest_reg[xr] = i

\* ------------------------------------------------------------- revert
\* A faulty SetFlushed: the host register is kept whatever the caller asks.
SetFlushedMaintains(s, preg, maintain_host_register) ==
    IF ~Ok(s) THEN s
    ELSE IF preg \in s.m_guests_revertable THEN Fail(s, "RevertableDuringFlush")
    ELSE [s EXCEPT !.m_guests_in_default_location = @ \cup {preg}]

\* PPCCachedReg::SetFlushed(maintain_host_register) on the entry of preg
SetFlushed(s, preg, maintain_host_register) ==
    IF ~Ok(s) THEN s
    ELSE IF preg \in s.m_guests_revertable THEN Fail(s, "RevertableDuringFlush")
    ELSE IF ~maintain_host_register /\ s.m_guests_locked[preg] > 0
    THEN Fail(s, "LockedDuringFlush")
    ELSE [s EXCEPT
            !.m_guests_in_host_register = IF maintain_host_register THEN @ ELSE @ \ {preg},
            !.m_guests_in_default_location = @ \cup {preg}]

\* PPCCachedReg::SetRevert on the entry of preg
SetRevert(s, preg) ==
    IF ~Ok(s) THEN s
    ELSE IF s.m_guests_locked[preg] > 0 THEN Fail(s, "RevertOfLocked")
    ELSE IF preg \notin s.m_guests_revertable THEN Fail(s, "NotRevertable")
    ELSE SetFlushed([s EXCEPT !.m_guests_revertable = @ \ {preg}], preg, FALSE)

\* X64CachedReg::Unbind on the entry of xr
Unbind(s, xr) ==
    IF ~Ok(s) THEN s
    ELSE IF xr \in s.m_hosts_is_locked \/ xr \in s.m_hosts_free THEN Fail(s, "UnbindOfFree")
    ELSE [s EXCEPT !.m_hosts_free = @ \cup {xr}]

\* The revert path for preg (RegCache::RevertStaged, one register): the host
\* register of preg is unbound and the guest entry reverted.
Revert(s, preg) ==
    IF preg \in s.m_guests_in_host_register
    THEN SetRevert(Unbind(s, s.m_guests_host_register[preg]), preg)
    ELSE SetRevert(s, preg)

\* ------------------------------------------------------------- handle objects
\* An RCOpArg or RCX64Reg object: its class, its rc pointer (set or null) and
\* its contents variant.  `realized` records that Realize was called on the
\* handle that now lives in the object.
Monostate == <<"monostate">>

\* The objects one instruction declares.
MaxObjects == 2
Objects == 1 .. MaxObjects

\* The storage of an object that is not constructed or was destroyed.
NoObject ==
    [alive |-> FALSE, class |-> "none", rc |-> FALSE, contents |-> Monostate,
     realized |-> FALSE]

\* RCOpArg(rc, preg) / RCX64Reg(rc, preg), as Use .. RevertableBind return it
PregHandle(kind, preg) ==
    [alive |-> TRUE,
     class |-> IF kind \in {"Bind", "RevertableBind"} THEN "RCX64Reg" ELSE "RCOpArg",
     rc |-> TRUE, contents |-> <<"preg", preg>>, realized |-> FALSE]

\* RCX64Reg(rc, xr), as Scratch returns it
XRegHandle(xr) ==
    [alive |-> TRUE, class |-> "RCX64Reg", rc |-> TRUE, contents |-> <<"xreg", xr>>,
     realized |-> FALSE]

\* RCOpArg(), RCX64Reg(), RCOpArg::Imm32(imm), RCOpArg::R(xr): no cache behind
PlainHandles ==
    {[alive |-> TRUE, class |-> c, rc |-> FALSE, contents |-> Monostate, realized |-> FALSE] :
        c \in {"RCOpArg", "RCX64Reg"}}
    \cup {[alive |-> TRUE, class |-> "RCOpArg", rc |-> FALSE, contents |-> <<"imm", v>>,
           realized |-> FALSE] : v \in ImmValues}
    \cup {[alive |-> TRUE, class |-> "RCOpArg", rc |-> FALSE, contents |-> <<"xreg", x>>,
           realized |-> FALSE] : x \in GetAllocatableRegisters}

\* A faulty move: the source keeps its rc and its contents.
MovedFromKeeps(h) == h

\* The source of a move: std::exchange leaves rc null and contents monostate.
MovedFrom(h) == [h EXCEPT !.rc = FALSE, !.contents = Monostate, !.realized = FALSE]

\* The cache after RCOpArg::Unlock / RCX64Reg::Unlock on the handle h.
HandleUnlock(s, h) ==
    IF ~Ok(s) THEN s
    ELSE IF h.contents[1] = "preg"
    THEN (IF h.rc THEN Unlock(s, h.contents[2]) ELSE Fail(s, "NoCache"))
    ELSE IF h.contents[1] = "xreg"
    THEN (IF h.rc THEN UnlockX(s, h.contents[2])
          ELSE IF h.class = "RCX64Reg" THEN Fail(s, "NoCache") ELSE s)
    ELSE IF h.rc THEN Fail(s, "CacheWithoutContents")
    ELSE s

\* The cache after RCOpArg::Realize / RCX64Reg::Realize on the handle h.
HandleRealizeCache(s, h, js) ==
    IF h.contents[1] = "preg" THEN Realize(s, h.contents[2], js) ELSE s

\* RCOpArg::Location / RCX64Reg::operator X64Reg on h: the operand, or the
\* assertion that fails.
Location(s, h) ==
    IF h.contents[1] = "preg"
    THEN (IF ~IsRealized(s.m_guests_constraints[h.contents[2]]) THEN <<"UnrealizedHandle">>
          ELSE IF h.contents[2] \in s.m_guests_in_host_register
          THEN <<"R", s.m_guests_host_register[h.contents[2]]>>
          ELSE IF h.class = "RCX64Reg" THEN <<"NotInHostRegister">>
          ELSE IF IsImm(s, h.contents[2]) THEN <<"Imm32", s.gpr_const[h.contents[2]]>>
          ELSE IF h.contents[2] \notin s.m_guests_in_default_location THEN <<"Missing">>
          ELSE <<"Mem", h.contents[2]>>)
    ELSE IF h.contents[1] = "xreg" THEN <<"R", h.contents[2]>>
    ELSE IF h.contents[1] = "imm" THEN <<"Imm32", h.contents[2]>>
    ELSE <<"NoContents">>

\* ------------------------------------------------------------- fork guard
\* RSCRATCH_EXTRA (RCX), the register ForcePreloadRegisters keeps clean.
RSCRATCH_EXTRA == 1

\* GPRRegCache::GetMaxPreloadableRegisters: every allocatable register but
\* the one ForcePreloadRegisters reserves.
GetMaxPreloadableRegisters == NumAlloc - 1

\* RCForkGuard(): a guard that holds no cache.
NoForkGuard == [rc |-> FALSE]

\* RegCache::Fork: the guard snapshots the guest table (m_regs) and the host
\* table (m_xregs); constraint records are not part of the snapshot.
Fork(s) ==
    [rc |-> TRUE,
     m_regs |-> [host_register |-> s.m_guests_host_register,
                 in_host_register |-> s.m_guests_in_host_register,
                 in_default_location |-> s.m_guests_in_default_location,
                 revertable |-> s.m_guests_revertable,
                 locked |-> s.m_guests_locked,
                 is_locked |-> s.m_guests_is_locked],
     m_xregs |-> [guest_reg |-> s.m_hosts_guest_reg,
                  free |-> s.m_hosts_free,
                  locked |-> s.m_hosts_locked,
                  is_locked |-> s.m_hosts_is_locked]]

\* RCForkGuard::EndFork: the two snapshotted tables are written back into the
\* cache the guard was taken from; the guard keeps its snapshot.
EndFork(s, guard) ==
    IF ~Ok(s) \/ ~guard.rc THEN s
    ELSE [s EXCEPT
            !.m_guests_host_register = guard.m_regs.host_register,
            !.m_guests_in_host_register = guard.m_regs.in_host_register,
            !.m_guests_in_default_location = guard.m_regs.in_default_location,
            !.m_guests_revertable = guard.m_regs.revertable,
            !.m_guests_locked = guard.m_regs.locked,
            !.m_guests_is_locked = guard.m_regs.is_locked,
            !.m_hosts_guest_reg = guard.m_xregs.guest_reg,
            !.m_hosts_free = guard.m_xregs.free,
            !.m_hosts_locked = guard.m_xregs.locked,
            !.m_hosts_is_locked = guard.m_xregs.is_locked]

\* RegCache::ForceDirty(regs): PPCCachedReg::SetDirty on every register of
\* regs, which asserts that the register is in a host register.
ForceDirty(s, regs) ==
    IF ~Ok(s) THEN s
    ELSE IF ~(regs \subseteq s.m_guests_in_host_register) THEN Fail(s, "DirtyNotBound")
    ELSE [s EXCEPT !.m_guests_in_default_location = @ \ regs]

\* The loop of RegCache::InBlockBranchPreloadRegisters: every register still
\* to visit is bound and loaded, not dirtied.
RECURSIVE ForcePreloadLoop(_, _, _)
ForcePreloadLoop(s, todo, js) ==
    IF todo = << >> \/ ~Ok(s) THEN s
    ELSE ForcePreloadLoop(BindToRegister(s, Head(todo), TRUE, FALSE, js), Tail(todo), js)

\* RegCache::InBlockBranchPreloadRegisters(regs)
InBlockBranchPreloadRegisters(s, regs, js) ==
    ForcePreloadLoop(s, SetToSeq(regs \ s.m_guests_in_host_register), js)

\* Jit64::ForcePreloadRegisters: RSCRATCH_EXTRA is held as a scratch register
\* while the registers of the region are preloaded.
ForcePreloadRegisters(s, status, js) ==
    UnlockX(InBlockBranchPreloadRegisters(ScratchX(s, RSCRATCH_EXTRA),
                                          status.regsIn \cup status.regsOut, js),
            RSCRATCH_EXTRA)

\* js.inBlockBranchStatus = {}: no region is active.  The optional ends_at is
\* the pair of ends_at (has_value) and value; fixed and ffixed are the
\* registers FixHostRegisters reserved in the two banks.
NoInBlockBranch ==
    [ends_at |-> FALSE, regsIn |-> {}, regsOut |-> {}, fixed |-> {},
     gpr_guard |-> NoForkGuard,
     value |-> 0, optimized_branches_i |-> << >>, fregsIn |-> {}, fregsOut |-> {},
     ffixed |-> {}, fpr_guard |-> FALSE,
     forward_fixups |-> << >>, backwards_addresses |-> << >>]

\* Jit64::IsInBlockBranchActive
IsInBlockBranchActive(status) == status.ends_at

\* A faulty HandleBarriers: the guard is not asked to restore the tables.
HandleBarriersNoEndFork(s, status, js) ==
    ForceDirty(ForcePreloadRegisters(s, status, js), status.regsOut)

\* The first barrier HandleBarriers finds at an op: the registers of the
\* region are preloaded, the guard restores the tables and the registers the
\* region writes are forced dirty.
HandleBarriers(s, status, js) ==
    ForceDirty(EndFork(ForcePreloadRegisters(s, status, js), status.gpr_guard),
               status.regsOut)

\* FlushUnusedRegisters of TryPrepareInBlockBranches, run when
\* should_flush_everything_else is set.
FlushUnusedRegisters(s, status, should_flush_everything_else) ==
    IF should_flush_everything_else
    THEN Flush(s, Guests \ (status.regsIn \cup status.regsOut), "Full", "No")
    ELSE s

\* RegCache::FixHostRegisters(pregs): the registers whose bindings stay
\* reserved until UnfixHostRegisters.
FixHostRegisters(status, pregs) == [status EXCEPT !.fixed = pregs]

\* The status TryPrepareInBlockBranches sets when a region begins at the op.
RegionStatus(regsIn, regsOut) ==
    [NoInBlockBranch EXCEPT !.ends_at = TRUE, !.regsIn = regsIn, !.regsOut = regsOut]

\* TryPrepareInBlockBranches on an idle coordinator, up to the fork: the
\* cache once the unused registers are flushed and the region's are preloaded.
PrepareCache(s, status, should_flush_everything_else, js) ==
    ForcePreloadRegisters(FlushUnusedRegisters(s, status, should_flush_everything_else),
                          status, js)

\* The status once the registers are fixed and the cache s is forked.
PrepareStatus(s, status) ==
    [FixHostRegisters(status, status.regsIn \cup status.regsOut) EXCEPT !.gpr_guard = Fork(s)]

\* Jit64::EndInBlockBranch followed by the flush of the registers the op at
\* the end of the region does not use.
EndRegion(s, gprInUse) == Flush(s, Guests \ gprInUse, "Full", "Yes")

\* The bindings FixHostRegisters reserved are the same in r as in s.
FixedKept(s, r, status) ==
    \A p \in status.fixed \cap s.m_guests_in_host_register :
        /\ p \in r.m_guests_in_host_register
        /\ r.m_guests_host_register[p] = s.m_guests_host_register[p]

\* ------------------------------------------------------------- emitted code
\* The contents of the guest register file and of the host registers before
\* a call, as unknowns: every slot and every register holds its own value.
InitialContents ==
    [mem |-> [p \in Guests |-> <<"m", p>>],
     xval |-> [x \in Hosts |-> <<"x", x>>]]

\* The contents after running the emitted instructions `code` on `c`:
\* MOV [preg], xr / MOV [preg], imm / MOV xr, imm / MOV xr, [preg].
RECURSIVE Exec(_, _)
Exec(code, c) ==
    IF code = << >> THEN c
    ELSE LET ins == Head(code)
             c1 == CASE ins[1] = "store_reg" -> [c EXCEPT !.mem[ins[2]] = c.xval[ins[3]]]
                     [] ins[1] = "store_imm" -> [c EXCEPT !.mem[ins[2]] = <<"i", ins[3]>>]
                     [] ins[1] = "load_imm" -> [c EXCEPT !.xval[ins[2]] = <<"i", ins[3]>>]
                     [] ins[1] = "load_mem" -> [c EXCEPT !.xval[ins[2]] = c.mem[ins[3]]]
         IN  Exec(Tail(code), c1)

\* The guest registers the stores of `code` write, in emission order.
RECURSIVE StoredPregs(_)
StoredPregs(code) ==
    IF code = << >> THEN << >>
    ELSE (IF Head(code)[1] \in {"store_reg", "store_imm"} THEN <<Head(code)[2]>> ELSE << >>)
             \o StoredPregs(Tail(code))

\* ------------------------------------------------------------- state
VARIABLES
    rc,                    \* the RegCache object and the constant propagation table
    steps,                 \* the number of operations applied since the entry state
    inBlockBranchStatus,   \* js.inBlockBranchStatus of the recompiler
    handles,               \* the RCOpArg and RCX64Reg objects of the instruction
    walk                   \* the block walker: the block, the op it is at, js.downcountAmount

vars == <<rc, steps, inBlockBranchStatus, handles, walk>>

\* No block is being walked.
NoWalk ==
    [block |-> << >>, i |-> 0, pc |-> "prepare", downcountAmount |-> 0,
     log |-> << >>, ret |-> FALSE, result |-> <<"none">>]

\* Number of operations followed from an entry state.
MaxSteps == 2

\* A call starts with nothing emitted and no failure recorded.
Begin(s) == [s EXCEPT !.emitted = << >>, !.err = "none"]

\* Sum of a table of lock counts.
RECURSIVE SumOver(_, _)
SumOver(f, S) ==
    IF S = {} THEN 0
    ELSE LET a == CHOOSE b \in S : TRUE IN f[a] + SumOver(f, S \ {a})

\* The number of live handles: every handle holds exactly one lock.
NumHandles(s) == SumOver(s.m_guests_locked, Guests) + SumOver(s.m_hosts_locked, Hosts)

\* What one instruction's emission does with a register it binds: take the
\* handle, realize it, and let the handle go out of scope.
BindOnce(s, kind, preg, mode, js) ==
    Unlock(Realize(TakeHandle(Begin(s), kind, preg, mode), preg, js), preg)

\* Guest registers 0 .. n-1 bound one after the other, the first one written.
RECURSIVE FillRegisters(_, _, _)
FillRegisters(s, n, js) ==
    IF n = 0 THEN s
    ELSE BindOnce(FillRegisters(s, n - 1, js), "Bind", n - 1,
                  IF n = 1 THEN "Write" ELSE "Read", js)

FirstOp == [op |-> 1, instructionsLeft |-> Len(Block) - 1]

\* The states in which the emission of an instruction is entered: the block
\* has just started, or earlier instructions have left registers bound.
EntryStates ==
    LET fresh == Start(Constructed)
        revertable0 == BindOnce(fresh, "RevertableBind", 0, "Write", FirstOp)
    IN  { Begin(fresh),
          Begin(FillRegisters(fresh, 1, FirstOp)),
          Begin(FillRegisters(fresh, NumAlloc, FirstOp)),
          Begin(revertable0),
          Begin(BindOnce(revertable0, "Bind", 1, "Write", FirstOp)) }

Init ==
    /\ rc \in EntryStates
    /\ steps = 0
    /\ inBlockBranchStatus = NoInBlockBranch
    /\ handles = [o \in Objects |-> NoObject]
    /\ walk = NoWalk

\* ------------------------------------------------------------- public calls
\* The results of every call of one public operation on the cache s.
StartCalls(s) == IF NumHandles(s) = 0 THEN {Start(s)} ELSE {}

TakeHandleCalls(s) ==
    {TakeHandle(s, kind, preg, mode) : kind \in HandleKinds, preg \in Guests, mode \in Modes}

ScratchCalls(s) == {Scratch(s, js).st : js \in JitStates}

ScratchXCalls(s) == {ScratchX(s, xr) : xr \in Hosts}

RealizeCalls(s) ==
    {Realize(s, preg, js) : preg \in {p \in Guests : s.m_guests_locked[p] > 0}, js \in JitStates}

UnlockCalls(s) == {Unlock(s, preg) : preg \in {p \in Guests : s.m_guests_locked[p] > 0}}

UnlockXCalls(s) == {UnlockX(s, xr) : xr \in {x \in Hosts : s.m_hosts_locked[x] > 0}}

FlushCalls(s) ==
    {Flush(s, pregs, mode, ign) :
        pregs \in SUBSET Guests, mode \in FlushModes, ign \in IgnoreDiscarded}

DiscardCalls(s) == {Discard(s, pregs) : pregs \in SUBSET Guests}

ResetCalls(s) == {Reset(s, pregs) : pregs \in SUBSET Guests}

CommitCalls(s) == {Commit(s)}

PreloadRegistersCalls(s) ==
    {PreloadRegisters(s, to_preload, js) : to_preload \in SUBSET Guests, js \in JitStates}

SetImmediate32Calls(s) ==
    {SetImmediate32(s, preg, imm_value, dirty) :
        preg \in Guests, imm_value \in ImmValues, dirty \in BOOLEAN}

\* ------------------------------------------------------------- actions
\* The step of a call that produced the cache r.  A failed assertion ends
\* the compilation: it is no step.
Step(r, bound) ==
    /\ Ok(r)
    /\ steps < bound
    /\ rc' = Begin(r)
    /\ steps' = steps + 1
    /\ UNCHANGED <<inBlockBranchStatus, handles, walk>>

\* Start() is called when the compilation of a block begins, outside the
\* scope of every handle.
DoStart == \E r \in StartCalls(rc) : Step(r, MaxSteps)

\* gpr.Use(preg, mode), UseNoImm, BindOrImm, Bind, RevertableBind
DoTakeHandle ==
    /\ NumHandles(rc) < MaxHandles
    /\ \E r \in TakeHandleCalls(rc) : Step(r, MaxSteps)

\* gpr.Scratch()
DoScratch ==
    /\ NumHandles(rc) < MaxHandles
    /\ \E r \in ScratchCalls(rc) : Step(r, MaxSteps)

\* gpr.Scratch(xr)
DoScratchX ==
    /\ NumHandles(rc) < MaxHandles
    /\ \E r \in ScratchXCalls(rc) : Step(r, MaxSteps)

\* RCOpArg::Realize / RCX64Reg::Realize of a handle on a guest register
DoRealize == \E r \in RealizeCalls(rc) : Step(r, MaxSteps)

\* The end of a handle on a guest register (Unlock(), the destructors)
DoUnlock == \E r \in UnlockCalls(rc) : Step(r, MaxSteps)

\* The end of a scratch handle
DoUnlockX == \E r \in UnlockXCalls(rc) : Step(r, MaxSteps)

DoFlush == \E r \in FlushCalls(rc) : Step(r, MaxSteps)

DoDiscard == \E r \in DiscardCalls(rc) : Step(r, MaxSteps)

DoReset == \E r \in ResetCalls(rc) : Step(r, MaxSteps)

DoCommit == \E r \in CommitCalls(rc) : Step(r, MaxSteps)

DoPreloadRegisters == \E r \in PreloadRegistersCalls(rc) : Step(r, MaxSteps)

DoSetImmediate32 == \E r \in SetImmediate32Calls(rc) : Step(r, MaxSteps)

Next ==
    \/ DoStart
    \/ DoTakeHandle
    \/ DoScratch
    \/ DoScratchX
    \/ DoRealize
    \/ DoUnlock
    \/ DoUnlockX
    \/ DoFlush
    \/ DoDiscard
    \/ DoReset
    \/ DoCommit
    \/ DoPreloadRegisters
    \/ DoSetImmediate32

Spec == Init /\ [][Next]_vars

\* ------------------------------------------------------------- handles
\* The emission of one instruction seen from its handles alone: handles are
\* taken, realized and released, and constants are propagated, for more
\* steps than Spec follows.
MaxHandleSteps == 3

HandleTake ==
    /\ NumHandles(rc) < MaxHandles
    /\ \E r \in TakeHandleCalls(rc) : Step(r, MaxHandleSteps)

HandleRealize == \E r \in RealizeCalls(rc) : Step(r, MaxHandleSteps)

HandleRelease == \E r \in UnlockCalls(rc) : Step(r, MaxHandleSteps)

HandleSetImmediate32 == \E r \in SetImmediate32Calls(rc) : Step(r, MaxHandleSteps)

NextHandles ==
    \/ HandleTake
    \/ HandleRealize
    \/ HandleRelease
    \/ HandleSetImmediate32

HandleSpec == Init /\ [][NextHandles]_vars

\* ------------------------------------------------------------- in-block branches
\* The recompiler walking a block with in-block branches: a region begins
\* (registers preloaded, fixed, cache forked), instructions are emitted in
\* it, barriers restore the fork, and the region ends.
MaxRegionSteps == 3

\* What the instructions emitted in a region do with the cache s, one
\* instruction at a time: a register is bound through a handle that is gone
\* when the instruction is done, registers are flushed or discarded, a
\* constant is propagated.
RegionCalls(s) ==
    {BindOnce(s, kind, preg, mode, js) :
        kind \in {"Bind", "RevertableBind"}, preg \in Guests, mode \in Modes, js \in JitStates}
        \cup FlushCalls(s) \cup DiscardCalls(s) \cup SetImmediate32Calls(s)

RegionStep(r, status) ==
    /\ Ok(r)
    /\ rc' = Begin(r)
    /\ steps' = steps + 1
    /\ inBlockBranchStatus' = status
    /\ UNCHANGED <<handles, walk>>

\* The end of TryPrepareInBlockBranches on an idle coordinator: the cache r
\* is forked, and HandleBarriers runs if the op is itself a barrier.
RegionBegins(r, status, barrier, js) ==
    IF barrier
    THEN RegionStep(HandleBarriers(r, PrepareStatus(r, status), js), PrepareStatus(r, status))
    ELSE RegionStep(r, PrepareStatus(r, status))

\* TryPrepareInBlockBranches when no region is active and one begins at the op
BeginRegion ==
    /\ steps < MaxRegionSteps
    /\ ~IsInBlockBranchActive(inBlockBranchStatus)
    /\ NumHandles(rc) = 0
    /\ \E regsIn \in SUBSET Guests, regsOut \in SUBSET Guests,
          should_flush_everything_else \in BOOLEAN, barrier \in BOOLEAN, js \in JitStates :
          /\ Cardinality(regsIn \cup regsOut) <= GetMaxPreloadableRegisters
          /\ RegionBegins(PrepareCache(rc, RegionStatus(regsIn, regsOut),
                                       should_flush_everything_else, js),
                          RegionStatus(regsIn, regsOut), barrier, js)

\* An instruction emitted inside the region; the fixed bindings stay
RegionCall ==
    /\ steps < MaxRegionSteps
    /\ IsInBlockBranchActive(inBlockBranchStatus)
    /\ \E r \in RegionCalls(rc) :
          /\ FixedKept(rc, r, inBlockBranchStatus)
          /\ RegionStep(r, inBlockBranchStatus)

\* TryPrepareInBlockBranches in a region, at an op that is a barrier
Barrier ==
    /\ steps < MaxRegionSteps
    /\ IsInBlockBranchActive(inBlockBranchStatus)
    /\ \E js \in JitStates :
          RegionStep(HandleBarriers(rc, inBlockBranchStatus, js), inBlockBranchStatus)

\* TryPrepareInBlockBranches in a region, at the op the region ends at
EndOfRegion ==
    /\ steps < MaxRegionSteps
    /\ IsInBlockBranchActive(inBlockBranchStatus)
    /\ \E gprInUse \in SUBSET Guests, barrier \in BOOLEAN, js \in JitStates :
          RegionStep(EndRegion(IF barrier THEN HandleBarriers(rc, inBlockBranchStatus, js)
                                          ELSE rc,
                               gprInUse),
                     NoInBlockBranch)

NextRegion ==
    \/ BeginRegion
    \/ RegionCall
    \/ Barrier
    \/ EndOfRegion

RegionSpec == Init /\ [][NextRegion]_vars

\* ------------------------------------------------------------- block walker
\* The recompiler walking an analyzed block op by op: before an op is
\* emitted the walker calls TryPrepareInBlockBranches on it, and the emission
\* of a branch calls TryInBlockBranch.  The coordinator works on the record
\* co: the GPR cache co.rc (whose emitted field is the code written so far),
\* js.inBlockBranchStatus co.status, js.downcountAmount, the value the call
\* returns (ret, result) and log, the coordinator's steps in their order.
NumOps == 3
MaxBranches == 3

\* The ops of the block, by index.
Ops == 0 .. (NumOps - 1)

\* The guest registers of the floating point bank, and the number of them
\* fpr.GetMaxPreloadableRegisters() allows a region to hold.
FGuests == 0 .. 1
FPRMaxPreloadableRegisters == 1

\* struct RegsUsed, and the footprints the analyzer reports for a branch
\* (with its contains_flush_and_continue hint).
NoRegsUsed == [regsIn |-> {}, regsOut |-> {}, fregsIn |-> {}, fregsOut |-> {}]

Footprints ==
    { [regsIn |-> {0}, regsOut |-> {}, fregsIn |-> {0}, fregsOut |-> {},
       contains_flush_and_continue |-> FALSE],
      [regsIn |-> {1}, regsOut |-> {2}, fregsIn |-> {}, fregsOut |-> {},
       contains_flush_and_continue |-> TRUE],
      [regsIn |-> {}, regsOut |-> {}, fregsIn |-> {}, fregsOut |-> {1},
       contains_flush_and_continue |-> FALSE],
      [regsIn |-> {0, 1}, regsOut |-> {2}, fregsIn |-> {}, fregsOut |-> {},
       contains_flush_and_continue |-> FALSE] }

\* PPCAnalyst::BranchInfo of the branch at op a to op t; a target that is
\* not an op of the block is NumOps, and the branch leaves the block.
BranchInfo(a, t, f) ==
    [address_i |-> a, branchTo_i |-> t,
     direction |-> IF t >= NumOps THEN "Outside"
                   ELSE IF t > a THEN "Forward" ELSE "Backward",
     regsIn |-> f.regsIn, regsOut |-> f.regsOut,
     fregsIn |-> f.fregsIn, fregsOut |-> f.fregsOut,
     contains_flush_and_continue |-> f.contains_flush_and_continue]

BranchInfos == {BranchInfo(a, t, f) : a \in Ops, t \in 0 .. NumOps, f \in Footprints}

CombineBranchInfo(bs, bi) ==
    [regsIn |-> bs.regsIn \cup bi.regsIn,
     regsOut |-> bs.regsOut \cup bi.regsOut,
     fregsIn |-> bs.fregsIn \cup bi.fregsIn,
     fregsOut |-> bs.fregsOut \cup bi.fregsOut]

GetStart_i(bi) == Min(bi.address_i, bi.branchTo_i)

\* A faulty GetEnd_i: every branch ends after the branch instruction.
GetEndAfterBranch(bi) == bi.address_i + 1

GetEnd_i(bi) == IF bi.direction = "Forward" THEN bi.branchTo_i ELSE bi.address_i + 1

Max(a, b) == IF a < b THEN b ELSE a

\* code_block.m_branch_infos: at most one branch per op, sorted by
\* min(address_i, branchTo_i).
IsBranchInfos(infos) ==
    /\ \A j, k \in 1 .. Len(infos) : j < k =>
          /\ infos[j].address_i # infos[k].address_i
          /\ GetStart_i(infos[j]) <= GetStart_i(infos[k])

CodeBlocks ==
    UNION {{infos \in [1 .. n -> BranchInfos] : IsBranchInfos(infos)} : n \in 0 .. MaxBranches}

\* IsFallbackToInterpreter(m_code_buffer[i].inst): the last op of the block
\* is an instruction the recompiler hands to the interpreter.
IsFallbackToInterpreter(i) == i = NumOps - 1

\* The CodeOp at index i of the block: its cycles, whether it is a branch
\* (op.branchTo != UINT32_MAX) or a branch target, the registers in use at
\* it, and the JitState while it is compiled.
CodeOp(infos, i) ==
    [i |-> i,
     num_cycles |-> i + 1,
     isBranch |-> \E k \in 1 .. Len(infos) : infos[k].address_i = i,
     isBranchTarget |-> \E k \in 1 .. Len(infos) : infos[k].branchTo_i = i,
     gprInUse |-> Block[i + 1].regsIn,
     fprInUse |-> {},
     js |-> [op |-> i + 1, instructionsLeft |-> Len(Block) - (i + 1)]]

\* The lambda AreThereEnoughHostRegs of TryPrepareInBlockBranches
AreThereEnoughHostRegs(regs) ==
    /\ Cardinality(regs.regsIn \cup regs.regsOut) <= GetMaxPreloadableRegisters
    /\ Cardinality(regs.fregsIn \cup regs.fregsOut) <= FPRMaxPreloadableRegisters

\* std::ranges::find_if over m_branch_infos: the position of the first branch
\* inside the block that starts at op i, 0 for cend().
FirstBranchAt(infos, i) ==
    LET found == {k \in 1 .. Len(infos) :
                    infos[k].direction # "Outside" /\ GetStart_i(infos[k]) = i}
    IN  IF found = {} THEN 0 ELSE CHOOSE k \in found : \A j \in found : k <= j

\* What the scan has selected when it starts from the branch it.
FirstSelected(it) ==
    [ru |-> CombineBranchInfo(NoRegsUsed, it),
     end_i |-> GetEnd_i(it),
     optimized_branches_i |-> <<it.address_i>>,
     should_flush_everything_else |-> it.contains_flush_and_continue]

\* The branch it joins the selection sel.
AddSelected(sel, it) ==
    [ru |-> CombineBranchInfo(sel.ru, it),
     end_i |-> Max(sel.end_i, GetEnd_i(it)),
     optimized_branches_i |-> Append(sel.optimized_branches_i, it.address_i),
     should_flush_everything_else |->
        sel.should_flush_everything_else \/ it.contains_flush_and_continue]

\* A faulty scan: the first branch that does not fit the budget ends it.
RECURSIVE ScanStopsAtMisfit(_, _, _)
ScanStopsAtMisfit(infos, k, sel) ==
    IF k > Len(infos) THEN sel
    ELSE IF GetStart_i(infos[k]) >= sel.end_i THEN sel
    ELSE IF infos[k].direction = "Outside" THEN ScanStopsAtMisfit(infos, k + 1, sel)
    ELSE IF AreThereEnoughHostRegs(CombineBranchInfo(sel.ru, infos[k]))
    THEN ScanStopsAtMisfit(infos, k + 1, AddSelected(sel, infos[k]))
    ELSE sel

\* A faulty scan: a branch that leaves the block is selected like the others.
RECURSIVE ScanTakesOutside(_, _, _)
ScanTakesOutside(infos, k, sel) ==
    IF k > Len(infos) THEN sel
    ELSE IF GetStart_i(infos[k]) >= sel.end_i THEN sel
    ELSE IF AreThereEnoughHostRegs(CombineBranchInfo(sel.ru, infos[k]))
    THEN ScanTakesOutside(infos, k + 1, AddSelected(sel, infos[k]))
    ELSE ScanTakesOutside(infos, k + 1, sel)

\* The loop of TryPrepareInBlockBranches over the branches after the first
\* one: it goes on while the branches intersect the run, skips the branches
\* that leave the block and those that do not fit the budget.
RECURSIVE ScanBranches(_, _, _)
ScanBranches(infos, k, sel) ==
    IF k > Len(infos) THEN sel
    ELSE IF GetStart_i(infos[k]) >= sel.end_i THEN sel
    ELSE IF infos[k].direction = "Outside" THEN ScanBranches(infos, k + 1, sel)
    ELSE IF AreThereEnoughHostRegs(CombineBranchInfo(sel.ru, infos[k]))
    THEN ScanBranches(infos, k + 1, AddSelected(sel, infos[k]))
    ELSE ScanBranches(infos, k + 1, sel)

\* The coordinator's record at the entry of a call.
Coordinator(s, status, downcountAmount, log) ==
    [rc |-> s, status |-> status, downcountAmount |-> downcountAmount, log |-> log,
     ret |-> FALSE, result |-> <<"none">>]

\* GetCodePtr(): the place in the emitted code the next instruction goes to.
GetCodePtr(co) == Len(co.rc.emitted)

\* The elements of a vector.
Contains(v, x) == \E k \in 1 .. Len(v) : v[k] = x

\* m[k] = v of a map.
Put(m, k, v) == [j \in DOMAIN m \cup {k} |-> IF j = k THEN v ELSE m[j]]

\* return ret;
Return(co, ret) == [co EXCEPT !.ret = ret]

\* The lambda DecreaseDowncount: the cycles counted before the op are
\* subtracted from the downcount, the cycles of the op stay counted.
DecreaseDowncount(co, op) ==
    [co EXCEPT
       !.rc = Emit(@, <<"SUB", co.downcountAmount - op.num_cycles>>),
       !.log = Append(@, [e |-> "SUB", op |-> op.i,
                          imm |-> co.downcountAmount - op.num_cycles]),
       !.downcountAmount = op.num_cycles]

\* The first barrier HandleBarriers finds at the op: the registers of the
\* region are preloaded, the downcount is decreased, the guards restore the
\* tables and the registers the region writes are forced dirty.
FirstBarrier(co, op) ==
    LET preloaded == [co EXCEPT !.rc = ForcePreloadRegisters(@, co.status, op.js)]
        decreased == DecreaseDowncount(preloaded, op)
    IN  [decreased EXCEPT
           !.rc = ForceDirty(EndFork(@, co.status.gpr_guard), co.status.regsOut)]

\* A FixupBranch nobody has set the target of.
NoTarget == -1

\* SetJumpTarget(forward_fixups.at(a)): the jump of branch a lands here.
SetJumpTarget(co, a, op) ==
    [co EXCEPT !.status.forward_fixups[a] = GetCodePtr(co),
               !.log = Append(@, [e |-> "SetJumpTarget", op |-> op.i, branch |-> a,
                                  at |-> GetCodePtr(co)])]

\* A faulty barrier: the address of a backward target is not recorded.
RecordBackwardsForgets(co, t) ==
    [co EXCEPT !.log = Append(@, [e |-> "Backwards", op |-> t, at |-> GetCodePtr(co)])]

\* backwards_addresses[bi.branchTo_i] = GetCodePtr()
RecordBackwards(co, t) ==
    [co EXCEPT !.status.backwards_addresses = Put(@, t, GetCodePtr(co)),
               !.log = Append(@, [e |-> "Backwards", op |-> t, at |-> GetCodePtr(co)])]

\* The body of the loop of HandleBarriers for a branch bi that is optimized
\* and targets the op.
BarrierOf(co, bi, op, first_barrier) ==
    LET b == IF first_barrier THEN FirstBarrier(co, op) ELSE co
    IN  IF bi.direction = "Forward"
        THEN IF bi.address_i \in DOMAIN b.status.forward_fixups
             THEN SetJumpTarget(b, bi.address_i, op)
             ELSE b
        ELSE IF bi.direction = "Backward" THEN RecordBackwards(b, bi.branchTo_i)
        ELSE b

\* A branch that makes the op a barrier of the active region.
IsBarrierOf(status, bi, op) ==
    bi.branchTo_i = op.i /\ Contains(status.optimized_branches_i, bi.address_i)

\* The loop of the lambda HandleBarriers from the branch at position k on.
RECURSIVE BarrierLoop(_, _, _, _, _)
BarrierLoop(co, infos, op, k, first_barrier) ==
    IF k > Len(infos) \/ ~Ok(co.rc) THEN co
    ELSE IF ~IsBarrierOf(co.status, infos[k], op)
    THEN BarrierLoop(co, infos, op, k + 1, first_barrier)
    ELSE BarrierLoop(BarrierOf(co, infos[k], op, first_barrier), infos, op, k + 1, FALSE)

\* The lambda HandleBarriers of TryPrepareInBlockBranches at the op.
HandleAllBarriers(co, infos, op) ==
    [BarrierLoop(co, infos, op, 1, TRUE) EXCEPT
        !.log = Append(@, [e |-> "HandleBarriers", op |-> op.i])]

\* A faulty EndInBlockBranch: the registers stay fixed.
EndInBlockBranchStaysFixed(co, op) ==
    [co EXCEPT
       !.status = [NoInBlockBranch EXCEPT !.fixed = co.status.fixed,
                                          !.ffixed = co.status.ffixed],
       !.log = Append(@, [e |-> "EndInBlockBranch", op |-> op.i])]

\* Jit64::EndInBlockBranch: the status is reset, which also unfixes the
\* registers of both banks.
EndInBlockBranch(co, op) ==
    [co EXCEPT !.status = NoInBlockBranch,
               !.log = Append(@, [e |-> "EndInBlockBranch", op |-> op.i])]

\* gpr.Flush(~op.gprInUse, IgnoreDiscardedRegisters::Yes) at the end of a
\* region.
FlushNotInUse(co, op) ==
    [co EXCEPT !.rc = EndRegion(@, op.gprInUse),
               !.log = Append(@, [e |-> "Flush", op |-> op.i])]

\* The status TryPrepareInBlockBranches records for the selection sel.
SelectedStatus(sel) ==
    [RegionStatus(sel.ru.regsIn, sel.ru.regsOut) EXCEPT
        !.value = sel.end_i,
        !.optimized_branches_i = sel.optimized_branches_i,
        !.fregsIn = sel.ru.fregsIn,
        !.fregsOut = sel.ru.fregsOut]

\* should_flush_everything_else once the ops of the region are looked at.
ShouldFlushEverythingElse(sel, op) ==
    \/ sel.should_flush_everything_else
    \/ \E i \in op.i .. (sel.end_i - 1) : IsFallbackToInterpreter(i)

\* The registers of the floating point bank are fixed and its cache forked.
PrepareFPR(status) ==
    [status EXCEPT !.ffixed = status.fregsIn \cup status.fregsOut, !.fpr_guard = TRUE]

\* TryPrepareInBlockBranches once the branches of the region are selected:
\* the status is recorded, the registers are flushed, preloaded and fixed,
\* the caches are forked and the barriers of the op are handled.
EnterRegion(co, infos, op, sel) ==
    LET s == PrepareCache(co.rc, SelectedStatus(sel), ShouldFlushEverythingElse(sel, op),
                          op.js)
        entered == [co EXCEPT
                      !.rc = s,
                      !.status = PrepareFPR(PrepareStatus(s, SelectedStatus(sel))),
                      !.log = Append(@, [e |-> "Enter", op |-> op.i])]
    IN  Return(HandleAllBarriers(entered, infos, op), TRUE)

\* TryPrepareInBlockBranches when no region is active, given the position
\* find_if returned.
SelectFrom(co, infos, op, k) ==
    IF k = 0 THEN Return(co, FALSE)
    ELSE IF ~AreThereEnoughHostRegs(CombineBranchInfo(NoRegsUsed, infos[k]))
    THEN Return(co, FALSE)
    ELSE EnterRegion(co, infos, op, ScanBranches(infos, k + 1, FirstSelected(infos[k])))

\* TryPrepareInBlockBranches when no region is active
TryPrepareIdle(co, infos, op) ==
    IF ~Ok(co.rc) THEN co
    ELSE IF ~op.isBranch /\ ~op.isBranchTarget THEN Return(co, FALSE)
    ELSE SelectFrom([co EXCEPT !.log = Append(@, [e |-> "Select", op |-> op.i])],
                    infos, op, FirstBranchAt(infos, op.i))

\* A faulty end of a region: the call returns true whether or not another
\* region begins at the op.
EndAndRetryReturnsTrue(co, infos, op) ==
    IF op.i # co.status.value THEN [co EXCEPT !.rc = Fail(@, "PastEndOfRegion")]
    ELSE Return(FlushNotInUse(EndInBlockBranch(co, op), op), TRUE)

\* TryPrepareInBlockBranches at the op a region ends at, its barriers handled
EndAndRetry(co, infos, op) ==
    IF op.i # co.status.value THEN [co EXCEPT !.rc = Fail(@, "PastEndOfRegion")]
    ELSE TryPrepareIdle(FlushNotInUse(EndInBlockBranch(co, op), op), infos, op)

\* TryPrepareInBlockBranches in a region, the barriers of the op handled
AfterBarriers(co, infos, op) ==
    IF ~Ok(co.rc) THEN co
    ELSE IF op.i >= co.status.value THEN EndAndRetry(co, infos, op)
    ELSE Return(co, TRUE)

\* Jit64::TryPrepareInBlockBranches
TryPrepareInBlockBranches(co, infos, op) ==
    IF co.status.ends_at
    THEN AfterBarriers(HandleAllBarriers(co, infos, op), infos, op)
    ELSE TryPrepareIdle(co, infos, op)

\* return x; of TryInBlockBranch
Result(co, x) == [co EXCEPT !.result = x]

\* The branch of m_branch_infos at the op.
BranchAt(infos, i) == infos[CHOOSE k \in 1 .. Len(infos) : infos[k].address_i = i]

\* TryInBlockBranch for a branch the region optimizes, the registers of the
\* region preloaded.
BranchInRegion(co, bi) ==
    IF ~Ok(co.rc) THEN co
    ELSE IF bi.direction = "Outside" THEN Result(co, <<"monostate">>)
    ELSE IF bi.direction = "Forward"
    THEN Result([co EXCEPT !.status.forward_fixups = Put(@, bi.address_i, NoTarget)],
                <<"FixupBranch", bi.address_i>>)
    ELSE IF bi.branchTo_i \in DOMAIN co.status.backwards_addresses
    THEN Result(co, <<"address", co.status.backwards_addresses[bi.branchTo_i]>>)
    ELSE [co EXCEPT !.rc = Fail(@, "out_of_range")]

\* TryInBlockBranch, given what TryPrepareInBlockBranches did.
AfterPrepare(co, infos, op) ==
    IF ~Ok(co.rc) THEN co
    ELSE IF ~co.ret THEN Result(co, <<"monostate">>)
    ELSE IF ~Contains(co.status.optimized_branches_i, op.i) THEN Result(co, <<"monostate">>)
    ELSE BranchInRegion([co EXCEPT !.rc = ForcePreloadRegisters(@, co.status, op.js)],
                        BranchAt(infos, op.i))

\* Jit64::TryInBlockBranch
TryInBlockBranch(co, infos, op) ==
    AfterPrepare(TryPrepareInBlockBranches(co, infos, op), infos, op)

\* The cache when the walk of a block begins: nothing is bound, or earlier
\* code has left every allocatable register bound.
WalkEntryStates ==
    {Begin(Start(Constructed)), Begin(FillRegisters(Start(Constructed), NumAlloc, FirstOp))}

InitWalk ==
    /\ rc \in WalkEntryStates
    /\ steps = 0
    /\ inBlockBranchStatus = NoInBlockBranch
    /\ handles = [o \in Objects |-> NoObject]
    /\ walk \in {[NoWalk EXCEPT !.block = infos] : infos \in CodeBlocks}

\* The op the walker is at.
CurrentOp == CodeOp(walk.block, walk.i)

\* The coordinator as the walker's state has it, amount cycles counted.
Entered(amount) == Coordinator(rc, inBlockBranchStatus, amount, walk.log)

\* A call of the coordinator returns co without a failed assertion or an
\* exception, and the walker goes on as w.
WalkStep(co, w) ==
    /\ Ok(co.rc)
    /\ rc' = co.rc
    /\ inBlockBranchStatus' = co.status
    /\ walk' = [w EXCEPT !.downcountAmount = co.downcountAmount, !.log = co.log,
                         !.ret = co.ret, !.result = co.result]
    /\ steps' = steps + 1
    /\ UNCHANGED handles

\* The walker reaches the next op: its cycles are counted and
\* TryPrepareInBlockBranches is called on it.
WalkPrepares ==
    /\ walk.i < NumOps
    /\ walk.pc = "prepare"
    /\ \E co \in {TryPrepareInBlockBranches(
                     Entered(walk.downcountAmount + CurrentOp.num_cycles),
                     walk.block, CurrentOp)} :
          WalkStep(co, [walk EXCEPT !.pc = "emit"])

\* The branch instruction is written with what TryInBlockBranch returned.
WriteBranch(co) == [co EXCEPT !.rc = Emit(@, <<"branch", co.result>>)]

\* The op is a branch: its emission calls TryInBlockBranch.
WalkEmitsBranch ==
    /\ walk.i < NumOps
    /\ walk.pc = "emit"
    /\ CurrentOp.isBranch
    /\ \E co \in {WriteBranch(TryInBlockBranch(Entered(walk.downcountAmount),
                                               walk.block, CurrentOp))} :
          WalkStep(co, [walk EXCEPT !.pc = "prepare", !.i = @ + 1])

\* What the emission of an op that is not a branch does with the cache: it
\* writes the register the analyzer says the op writes, or uses no register.
OpCalls(s, op) ==
    {Emit(s, <<"op", op.i>>)}
        \cup {Emit(Unlock(Realize(TakeHandle(s, "Bind", preg, "Write"), preg, op.js), preg),
                   <<"op", op.i>>) : preg \in Block[op.i + 1].gprWillBeWritten}

\* The op is not a branch: its instruction is emitted; the fixed bindings stay.
WalkEmitsOp ==
    /\ walk.i < NumOps
    /\ walk.pc = "emit"
    /\ ~CurrentOp.isBranch
    /\ \E r \in OpCalls(rc, CurrentOp) :
          /\ FixedKept(rc, r, inBlockBranchStatus)
          /\ WalkStep([Entered(walk.downcountAmount) EXCEPT !.rc = r, !.ret = walk.ret],
                      [walk EXCEPT !.pc = "prepare", !.i = @ + 1])

NextWalk ==
    \/ WalkPrepares
    \/ WalkEmitsBranch
    \/ WalkEmitsOp

WalkSpec == InitWalk /\ [][NextWalk]_vars

\* ------------------------------------------------------------- handle life cycle
\* The emission of one instruction seen from its handle objects: they are
\* constructed, moved, realized, unlocked and destroyed.
MaxObjectSteps == 3

ObjectStep(r, hs) ==
    /\ Ok(r)
    /\ rc' = Begin(r)
    /\ handles' = hs
    /\ steps' = steps + 1
    /\ UNCHANGED <<inBlockBranchStatus, walk>>

\* The storage the next declared object takes.
Unused(hs) == {o \in Objects : ~hs[o].alive /\ \A n \in Objects : ~hs[n].alive => o <= n}

\* A handle of class `from` can be moved into an object of class `to`:
\* same class, or RCOpArg(RCX64Reg&&).
Movable(from, to) == from = to \/ (from = "RCX64Reg" /\ to = "RCOpArg")

\* The objects after the handle in o is moved into d, whose class is class.
MoveInto(hs, d, o, class) ==
    [hs EXCEPT ![d] = [hs[o] EXCEPT !.class = class], ![o] = MovedFrom(hs[o])]

\* auto h = gpr.Use(preg, mode) (UseNoImm, BindOrImm, Bind, RevertableBind)
ObjTake ==
    /\ steps < MaxObjectSteps
    /\ \E d \in Unused(handles), kind \in HandleKinds, preg \in Guests, mode \in Modes :
          ObjectStep(TakeHandle(rc, kind, preg, mode),
                     [handles EXCEPT ![d] = PregHandle(kind, preg)])

\* auto h = gpr.Scratch(xr)
ObjScratch ==
    /\ steps < MaxObjectSteps
    /\ \E d \in Unused(handles), xr \in GetAllocatableRegisters :
          ObjectStep(ScratchX(rc, xr), [handles EXCEPT ![d] = XRegHandle(xr)])

\* RCOpArg h; RCX64Reg h; auto h = RCOpArg::Imm32(imm); auto h = RCOpArg::R(xr)
ObjPlain ==
    /\ steps < MaxObjectSteps
    /\ \E d \in Unused(handles), h \in PlainHandles :
          ObjectStep(rc, [handles EXCEPT ![d] = h])

\* RCOpArg d(std::move(o)), RCX64Reg d(std::move(o)), RCOpArg d(RCX64Reg&&)
ObjMoveConstruct ==
    /\ steps < MaxObjectSteps
    /\ \E d \in Unused(handles), o \in Objects, class \in {"RCOpArg", "RCX64Reg"} :
          /\ handles[o].alive
          /\ Movable(handles[o].class, class)
          /\ ObjectStep(rc, MoveInto(handles, d, o, class))

\* d = std::move(o): d is unlocked, then takes what o holds
ObjMoveAssign ==
    /\ steps < MaxObjectSteps
    /\ \E d \in Objects, o \in Objects :
          /\ d # o
          /\ handles[d].alive
          /\ handles[o].alive
          /\ Movable(handles[o].class, handles[d].class)
          /\ ObjectStep(HandleUnlock(rc, handles[d]),
                        MoveInto(handles, d, o, handles[d].class))

\* h.Unlock()
ObjUnlock ==
    /\ steps < MaxObjectSteps
    /\ \E o \in Objects :
          /\ handles[o].alive
          /\ ObjectStep(HandleUnlock(rc, handles[o]),
                        [handles EXCEPT ![o] = MovedFrom(handles[o])])

\* The destructor of h
ObjDestroy ==
    /\ steps < MaxObjectSteps
    /\ \E o \in Objects :
          /\ handles[o].alive
          /\ ObjectStep(HandleUnlock(rc, handles[o]), [handles EXCEPT ![o] = NoObject])

\* h.Realize()
ObjRealize ==
    /\ steps < MaxObjectSteps
    /\ \E o \in Objects, js \in JitStates :
          /\ handles[o].alive
          /\ ObjectStep(HandleRealizeCache(rc, handles[o], js),
                        [handles EXCEPT ![o].realized = @ \/ handles[o].contents[1] = "preg"])

NextObjects ==
    \/ ObjTake
    \/ ObjScratch
    \/ ObjPlain
    \/ ObjMoveConstruct
    \/ ObjMoveAssign
    \/ ObjUnlock
    \/ ObjDestroy
    \/ ObjRealize

ObjectSpec == Init /\ [][NextObjects]_vars

\* ------------------------------------------------------------- transactions
\* The handles of an instruction that may fault, and the exception path
\* that reverts the registers staged by RevertableBind.
DoRevert ==
    /\ steps < MaxHandleSteps
    /\ \E preg \in Guests : Step(Revert(rc, preg), MaxHandleSteps)

NextRevert ==
    \/ HandleTake
    \/ HandleRealize
    \/ HandleRelease
    \/ DoRevert

RevertSpec == Init /\ [][NextRevert]_vars

\* ------------------------------------------------------------- properties
\* The results of every public call on s except Discard.
CallsButDiscard(s) ==
    StartCalls(s) \cup TakeHandleCalls(s) \cup ScratchCalls(s) \cup ScratchXCalls(s)
        \cup RealizeCalls(s) \cup UnlockCalls(s) \cup UnlockXCalls(s) \cup FlushCalls(s)
        \cup ResetCalls(s) \cup CommitCalls(s) \cup PreloadRegistersCalls(s)
        \cup SetImmediate32Calls(s)

\* The results of every public call on s.
PublicCalls(s) == CallsButDiscard(s) \cup DiscardCalls(s)

\* preg has a valid location: its slot, a host register or an immediate.
HasLocation(s, preg) ==
    \/ preg \in s.m_guests_in_default_location
    \/ preg \in s.m_guests_in_host_register
    \/ IsImm(s, preg)

\* The guest registers a handle locks or a transaction holds.
LockedOrRevertable(s) == s.m_guests_is_locked \cup s.m_guests_revertable

\* No guest register and no host register is locked.
NoLocks(s) == s.m_guests_is_locked = {} /\ s.m_hosts_is_locked = {}

\* ---- C1
\* preg is bound to xr.
BoundTo(s, preg, xr) ==
    preg \in s.m_guests_in_host_register /\ s.m_guests_host_register[preg] = xr

\* The symmetry between the two sides of the binding tables, on the host
\* registers that are taken.
BindingSymmetry(s) ==
    \A preg \in Guests, xr \in Hosts :
        BoundTo(s, preg, xr) <=> (xr \notin s.m_hosts_free /\ s.m_hosts_guest_reg[xr] = preg)

\* C1, as stated: guest register p is bound to host register x if and only
\* if x's guest field is p.
C1_SymmetryAsStated ==
    \A preg \in Guests, xr \in Hosts :
        BoundTo(rc, preg, xr) <=> rc.m_hosts_guest_reg[xr] = preg

\* C1, amended: guest register p is bound to host register x if and only if
\* x is not free and x's guest field is p; this holds between public calls,
\* in the state reached and after every further call that succeeds.
C1_BindingSymmetry ==
    /\ BindingSymmetry(rc)
    /\ \A r \in PublicCalls(rc) : Ok(r) => BindingSymmetry(r)

\* C1: a register is bound while the host register another one was bound to
\* has been released and still names it.
C1_Witness ==
    \E p, q \in Guests, xr \in GetAllocatableRegisters :
        /\ p # q
        /\ p \in rc.m_guests_in_host_register
        /\ q \notin rc.m_guests_in_host_register
        /\ rc.m_guests_host_register[q] = xr
        /\ rc.m_hosts_guest_reg[xr] = q
        /\ xr \in rc.m_hosts_free

\* ---- C2
\* A successful call r on s leaves a location to every register of `among`
\* that had one.
KeepsLocations(s, r, among) ==
    Ok(r) => \A preg \in among : HasLocation(s, preg) => HasLocation(r, preg)

\* C2: a guest register that has a valid location keeps one through every
\* public call, except the registers named in a call of Discard; neither
\* SetImmediate32 nor any flush, spill or bind leaves a register without one.
C2_LocationSufficiency ==
    /\ \A r \in CallsButDiscard(rc) : KeepsLocations(rc, r, Guests)
    /\ \A pregs \in SUBSET Guests : KeepsLocations(rc, Discard(rc, pregs), Guests \ pregs)

\* C2: the only location of a register is its host register; a full flush
\* of it leaves it a location, Discard takes the last one away.
C2_Witness ==
    \E preg \in Guests :
        /\ preg \in rc.m_guests_in_host_register
        /\ preg \notin rc.m_guests_in_default_location
        /\ Ok(Flush(rc, {preg}, "Full", "No"))
        /\ HasLocation(Flush(rc, {preg}, "Full", "No"), preg)
        /\ Ok(Discard(rc, {preg}))
        /\ ~HasLocation(Discard(rc, {preg}), preg)

\* ---- C3
\* A successful call r on s leaves every locked or revertable register that
\* was bound in its host register.
KeepsLockedBound(s, r) ==
    Ok(r) =>
        \A preg \in LockedOrRevertable(s) \cap s.m_guests_in_host_register :
            BoundTo(r, preg, s.m_guests_host_register[preg])

\* C3: no call that reaches GetFreeXReg or FlushX (Realize, Scratch(),
\* Scratch(xr), PreloadRegisters) stores and unbinds a guest register that
\* is locked or revertable.
C3_NoLockedSpill ==
    \A r \in RealizeCalls(rc) \cup ScratchCalls(rc) \cup ScratchXCalls(rc)
                \cup PreloadRegistersCalls(rc) :
        KeepsLockedBound(rc, r)

\* ---- C4
\* A call r on s either fails or leaves the location flags of preg alone.
KeepsFlags(s, r, preg) ==
    Ok(r) =>
        /\ preg \in r.m_guests_in_default_location <=> preg \in s.m_guests_in_default_location
        /\ preg \in r.m_guests_in_host_register <=> preg \in s.m_guests_in_host_register

\* C4: Discard and the discard inside SetImmediate32 refuse to act on a
\* guest register that is locked or revertable.
C4_NoLockedDiscard ==
    /\ \A pregs \in SUBSET Guests :
          pregs \cap LockedOrRevertable(rc) # {} => ~Ok(Discard(rc, pregs))
    /\ \A preg \in LockedOrRevertable(rc), imm_value \in ImmValues, dirty \in BOOLEAN :
          KeepsFlags(rc, SetImmediate32(rc, preg, imm_value, dirty), preg)

\* ---- C5
\* C5: Reset of a set that holds a locked or revertable guest register does
\* not change that register's in-default-location flag.
C5_ResetRefusesLocked ==
    \A pregs \in SUBSET Guests :
        \A preg \in pregs \cap LockedOrRevertable(rc) :
            Ok(Reset(rc, pregs)) =>
                (preg \in Reset(rc, pregs).m_guests_in_default_location
                    <=> preg \in rc.m_guests_in_default_location)

\* ---- C6
\* The constraint record d accumulates the record c: no flag of c is
\* cleared, and a realized location of c is unchanged.
ConstraintKept(c, d) ==
    /\ c.read => d.read
    /\ c.write => d.write
    /\ c.kill_imm => d.kill_imm
    /\ c.kill_mem => d.kill_mem
    /\ c.revertable => d.revertable
    /\ IsRealized(c) => d.realized = c.realized

\* The records of the registers that stay locked through the call r on s
\* are kept.
KeepsConstraints(s, r) ==
    Ok(r) =>
        \A preg \in Guests :
            s.m_guests_locked[preg] > 0 /\ r.m_guests_locked[preg] > 0 =>
                ConstraintKept(s.m_guests_constraints[preg], r.m_guests_constraints[preg])

\* C6: while the lock count of a guest register stays above zero, every
\* call (taking a further handle, realizing, releasing one of several
\* handles, and any other call) only sets flags of its constraint record,
\* and the realized location, once set, does not change.
C6_ConstraintMonotonicity == \A r \in PublicCalls(rc) : KeepsConstraints(rc, r)

\* C6: two handles are alive on one register whose record has accumulated
\* both access flags and has been realized; the release of one of them
\* leaves the register locked and a further compatible handle is accepted.
C6_Witness ==
    \E preg \in Guests :
        /\ rc.m_guests_locked[preg] = 2
        /\ rc.m_guests_constraints[preg].read
        /\ rc.m_guests_constraints[preg].write
        /\ IsRealized(rc.m_guests_constraints[preg])
        /\ Unlock(rc, preg).m_guests_locked[preg] = 1
        /\ Ok(TakeHandle(rc, "Use", preg, "Read"))

\* ---- C7
\* r differs from s in the revertable set only, which is empty in r.
OnlyRevertableCleared(s, r) ==
    /\ Ok(r)
    /\ r.m_guests_revertable = {}
    /\ r.m_guests_in_host_register = s.m_guests_in_host_register
    /\ r.m_guests_host_register = s.m_guests_host_register
    /\ r.m_hosts_guest_reg = s.m_hosts_guest_reg
    /\ r.m_guests_in_default_location = s.m_guests_in_default_location
    /\ r.m_hosts_free = s.m_hosts_free
    /\ r.m_guests_locked = s.m_guests_locked
    /\ r.m_guests_is_locked = s.m_guests_is_locked
    /\ r.m_hosts_locked = s.m_hosts_locked
    /\ r.m_hosts_is_locked = s.m_hosts_is_locked
    /\ r.m_guests_constraints = s.m_guests_constraints
    /\ r.gpr_const = s.gpr_const
    /\ r.emitted = << >>

\* C7: Commit(), called with no live handle, succeeds, empties the
\* revertable set, emits nothing and changes no binding, no
\* in-default-location flag, no free flag and no lock count.
C7_CommitFrame == NumHandles(rc) = 0 => OnlyRevertableCleared(rc, Commit(rc))

\* C7: no handle is alive and a bound register is revertable.
C7_Witness ==
    /\ NumHandles(rc) = 0
    /\ rc.m_guests_revertable \cap rc.m_guests_in_host_register # {}
    /\ Commit(rc).m_guests_revertable = {}

\* ---- C8
\* C8, as stated: while the revertable set is not empty, no Flush succeeds,
\* whatever set and mode it is given.
C8_NoFlushWhileRevertable ==
    rc.m_guests_revertable # {} => \A r \in FlushCalls(rc) : ~Ok(r)

\* C8, amended: a Flush of a set that holds a revertable guest register
\* fails, in every mode.
C8_FlushOfRevertableFails ==
    \A pregs \in SUBSET Guests, mode \in FlushModes, ign \in IgnoreDiscarded :
        pregs \cap rc.m_guests_revertable # {} => ~Ok(Flush(rc, pregs, mode, ign))

\* C8: a register is revertable and no lock is held; the flush of that
\* register fails on the transaction, the flush of another bound register
\* succeeds.
C8_Witness ==
    \E p, q \in Guests :
        /\ p \in rc.m_guests_revertable
        /\ q \in rc.m_guests_in_host_register \ rc.m_guests_revertable
        /\ Flush(rc, {p}, "Full", "No").err = "RevertableDuringFlush"
        /\ Ok(Flush(rc, {q}, "Full", "No"))

\* ---- C9
\* The effects of a successful Flush(pregs, Full) whose result on s is r.
FlushFullEffects(s, pregs, r) ==
    /\ Ok(r)
    /\ StoredPregs(r.emitted) = SetToSeq(pregs \ s.m_guests_in_default_location)
    /\ Len(r.emitted) = Len(StoredPregs(r.emitted))
    /\ pregs \subseteq r.m_guests_in_default_location
    /\ pregs \cap r.m_guests_in_host_register = {}
    /\ \A preg \in pregs \cap s.m_guests_in_host_register :
          s.m_guests_host_register[preg] \in r.m_hosts_free
    /\ \A preg \in Guests \ pregs :
          /\ preg \in r.m_guests_in_host_register <=> preg \in s.m_guests_in_host_register
          /\ r.m_guests_host_register[preg] = s.m_guests_host_register[preg]
          /\ preg \in r.m_guests_in_default_location <=> preg \in s.m_guests_in_default_location
          /\ preg \in r.m_guests_revertable <=> preg \in s.m_guests_revertable
          /\ r.gpr_const[preg] = s.gpr_const[preg]
    /\ pregs = Guests =>
          /\ r.m_guests_in_default_location = Guests
          /\ r.m_guests_in_host_register = {}
          /\ Hosts \ r.m_hosts_free = {}
          /\ r.m_hosts_is_locked = {}
          /\ SanityCheck(r)

\* C9, as stated: with no lock held and no register of S revertable,
\* Flush(S, Full) emits exactly one store for each register of S that was
\* not in its default location and no other instruction; afterwards every
\* register of S is in its default location and unbound, the host registers
\* they were bound to are free, and the registers outside S keep binding
\* and flags; after Flush(all, Full) nothing is bound and SanityCheck holds.
C9_FlushFull ==
    \A pregs \in SUBSET Guests, ign \in IgnoreDiscarded :
        NoLocks(rc) /\ pregs \cap rc.m_guests_revertable = {} =>
            FlushFullEffects(rc, pregs, Flush(rc, pregs, "Full", ign))

\* C9, amended: the same, for a set S all of whose registers have a valid
\* location (none of them is discarded).
C9_FlushFullOfLocated ==
    \A pregs \in SUBSET Guests, ign \in IgnoreDiscarded :
        /\ NoLocks(rc)
        /\ pregs \cap rc.m_guests_revertable = {}
        /\ \A preg \in pregs : HasLocation(rc, preg)
        => FlushFullEffects(rc, pregs, Flush(rc, pregs, "Full", ign))

\* C9: no lock is held, nothing is revertable, every register has a
\* location, one is bound and dirty and another one carries a dirty
\* immediate: Flush(all, Full) stores both.
C9_Witness ==
    /\ NoLocks(rc)
    /\ rc.m_guests_revertable = {}
    /\ \A preg \in Guests : HasLocation(rc, preg)
    /\ \E p, q \in Guests :
          /\ p \in rc.m_guests_in_host_register \ rc.m_guests_in_default_location
          /\ q \notin rc.m_guests_in_host_register \cup rc.m_guests_in_default_location
          /\ IsImm(rc, q)
    /\ Len(Flush(rc, Guests, "Full", "No").emitted) = 2

\* ---- C10
\* The tables of a and b agree: flags, bindings, free flags and locks.
SameTables(a, b) ==
    /\ Ok(a) /\ Ok(b)
    /\ a.m_guests_in_default_location = b.m_guests_in_default_location
    /\ a.m_guests_in_host_register = b.m_guests_in_host_register
    /\ \A preg \in a.m_guests_in_host_register :
          a.m_guests_host_register[preg] = b.m_guests_host_register[preg]
    /\ a.m_hosts_free = b.m_hosts_free
    /\ a.m_guests_locked = b.m_guests_locked
    /\ a.m_guests_is_locked = b.m_guests_is_locked
    /\ a.m_hosts_locked = b.m_hosts_locked
    /\ a.m_hosts_is_locked = b.m_hosts_is_locked
    /\ a.m_guests_revertable = b.m_guests_revertable
    /\ a.gpr_const = b.gpr_const

\* The code emitted by a and by b leaves the same guest register file.
SameMemory(a, b) ==
    Exec(a.emitted, InitialContents).mem = Exec(b.emitted, InitialContents).mem

\* C10: with no lock held, nothing revertable and nothing discarded,
\* PreloadRegisters(S) followed by Flush(all, Full) leaves the same tables
\* (in-default-location flags, bindings, free flags, locks) and the same
\* memory contents as Flush(all, Full) alone.
C10_PreloadThenFlush ==
    NoLocks(rc) /\ rc.m_guests_revertable = {} /\ (\A preg \in Guests : HasLocation(rc, preg)) =>
        \A to_preload \in SUBSET Guests, js \in JitStates :
            /\ SameTables(Flush(PreloadRegisters(rc, to_preload, js), Guests, "Full", "No"),
                          Flush(rc, Guests, "Full", "No"))
            /\ SameMemory(Flush(PreloadRegisters(rc, to_preload, js), Guests, "Full", "No"),
                          Flush(rc, Guests, "Full", "No"))

\* C10: under those conditions a register is bound and dirty, and
\* PreloadRegisters binds and loads another one.
C10_Witness ==
    /\ NoLocks(rc)
    /\ rc.m_guests_revertable = {}
    /\ \A preg \in Guests : HasLocation(rc, preg)
    /\ rc.m_guests_in_host_register \ rc.m_guests_in_default_location # {}
    /\ \E to_preload \in SUBSET Guests, js \in JitStates :
          /\ Ok(PreloadRegisters(rc, to_preload, js))
          /\ PreloadRegisters(rc, to_preload, js).m_guests_in_host_register
                 # rc.m_guests_in_host_register
          /\ Len(PreloadRegisters(rc, to_preload, js).emitted) > 0

\* ---- C11
\* The cache s after a barrier of the region `status`, seen against the fork:
\* every register bound at the fork is bound to the same host register.
BindingsAsForked(s, guard) ==
    \A p \in guard.m_regs.in_host_register :
        BoundTo(s, p, guard.m_regs.host_register[p])

\* Every register bound at the fork has the in-default-location flag it had.
FlagsAsForked(s, guard, pregs) ==
    \A p \in guard.m_regs.in_host_register \cap pregs :
        p \in s.m_guests_in_default_location <=> p \in guard.m_regs.in_default_location

\* The guest and host tables of s are the forked ones, but for the
\* in-default-location flags of the registers in dirtied.
TablesAsForked(s, guard, dirtied) ==
    /\ Fork(s).m_xregs = guard.m_xregs
    /\ Fork(s).m_regs =
           [guard.m_regs EXCEPT !.in_default_location = @ \ dirtied]

\* C11 as stated: at every barrier of a region every guest register bound at
\* the fork is bound to the same host register with the same
\* in-default-location flag, whatever was emitted since the fork.
C11_RestoredAsForked ==
    IsInBlockBranchActive(inBlockBranchStatus) =>
        \A r \in {HandleBarriers(rc, inBlockBranchStatus, js) : js \in JitStates} :
            Ok(r) => /\ BindingsAsForked(r, inBlockBranchStatus.gpr_guard)
                     /\ FlagsAsForked(r, inBlockBranchStatus.gpr_guard, Guests)

\* C11 amended: at every barrier of a region the guest and host tables are
\* the ones snapshotted at the fork, except that the registers of regsOut
\* are dirty: every guest register bound at the fork is bound to the same
\* host register, with the same in-default-location flag if it is not in
\* regsOut.
C11_RestoredButLiveOut ==
    IsInBlockBranchActive(inBlockBranchStatus) =>
        \A r \in {HandleBarriers(rc, inBlockBranchStatus, js) : js \in JitStates} :
            Ok(r) => /\ BindingsAsForked(r, inBlockBranchStatus.gpr_guard)
                     /\ FlagsAsForked(r, inBlockBranchStatus.gpr_guard,
                                      Guests \ inBlockBranchStatus.regsOut)
                     /\ TablesAsForked(r, inBlockBranchStatus.gpr_guard,
                                       inBlockBranchStatus.regsOut)

\* A barrier is handled in a region after a register bound at the fork and
\* not fixed has lost its host register, and a register of regsOut was
\* clean at the fork.
C11_Witness ==
    /\ IsInBlockBranchActive(inBlockBranchStatus)
    /\ steps > 1
    /\ \E p \in inBlockBranchStatus.gpr_guard.m_regs.in_host_register :
          p \notin rc.m_guests_in_host_register
    /\ \E p \in inBlockBranchStatus.regsOut :
          p \in inBlockBranchStatus.gpr_guard.m_regs.in_default_location
    /\ \E js \in JitStates : Ok(HandleBarriers(rc, inBlockBranchStatus, js))

\* ---- C12
\* The live handles that own the lock of guest register p / host register x.
OwnersOf(hs, what, reg) ==
    {o \in Objects : hs[o].alive /\ hs[o].rc /\ hs[o].contents = <<what, reg>>}

\* Every lock count is the number of live owning handles.
CountsAreOwners(s, hs) ==
    /\ \A p \in Guests :
          /\ s.m_guests_locked[p] = Cardinality(OwnersOf(hs, "preg", p))
          /\ p \in s.m_guests_is_locked <=> OwnersOf(hs, "preg", p) # {}
    /\ \A x \in Hosts :
          /\ s.m_hosts_locked[x] = Cardinality(OwnersOf(hs, "xreg", x))
          /\ x \in s.m_hosts_is_locked <=> OwnersOf(hs, "xreg", x) # {}

\* C12: after any sequence of handle constructions, moves, move-assignments,
\* conversions, Unlock calls and destructions every lock count equals the
\* number of live handles that own the register, and unlocking or destroying
\* any object decrements a count only when it is not zero.
C12_LockAccounting ==
    /\ CountsAreOwners(rc, handles)
    /\ \A o \in Objects :
          handles[o].alive =>
              /\ Ok(HandleUnlock(rc, handles[o]))
              /\ CountsAreOwners(HandleUnlock(rc, handles[o]),
                                 [handles EXCEPT ![o] = NoObject])

\* An RCOpArg owns the lock of a host register (it was converted from an
\* RCX64Reg) beside the RCX64Reg the move has emptied.
C12_Witness ==
    /\ \E o \in Objects, x \in Hosts :
          handles[o].class = "RCOpArg" /\ OwnersOf(handles, "xreg", x) = {o}
    /\ \E o \in Objects :
          handles[o].alive /\ handles[o].class = "RCX64Reg" /\ handles[o] = MovedFrom(handles[o])

\* ---- C13
\* The live handles on a guest register.
PregHandles(hs) == {o \in Objects : hs[o].alive /\ hs[o].contents[1] = "preg"}

\* C13 as stated: every live handle on a guest register that has not been
\* realized itself fails with UnrealizedHandle when asked for its operand.
C13_UnrealizedHandleFails ==
    \A o \in PregHandles(handles) :
        ~handles[o].realized => Location(rc, handles[o]) = <<"UnrealizedHandle">>

\* The handles taken on preg in s fail with UnrealizedHandle: the first one,
\* and a second one taken beside it.
FreshHandlesFail(s, preg) ==
    \A kind \in HandleKinds, mode \in Modes :
        /\ Location(TakeHandle(s, kind, preg, mode), PregHandle(kind, preg))
               = <<"UnrealizedHandle">>
        /\ \A r \in {TakeHandle(TakeHandle(s, kind, preg, mode), k2, preg, m2) :
                         k2 \in HandleKinds, m2 \in Modes} :
               Location(r, PregHandle(kind, preg)) = <<"UnrealizedHandle">>

\* C13 amended: realization is kept per guest register.  A handle on a guest
\* register fails with UnrealizedHandle as long as no handle of the register
\* was realized since the register was last unlocked entirely; once a live
\* handle of the register is realized no handle of that register fails with
\* UnrealizedHandle, realized itself or not.
C13_UnrealizedRegisterFails ==
    /\ \A p \in Guests :
          OwnersOf(handles, "preg", p) = {} => FreshHandlesFail(rc, p)
    /\ \A o \in PregHandles(handles), n \in PregHandles(handles) :
          handles[o].contents = handles[n].contents /\ handles[n].realized
              => Location(rc, handles[o]) # <<"UnrealizedHandle">>

\* A handle that was never realized shares its guest register with a
\* realized one, beside a register that no handle owns after an earlier
\* instruction bound it.
C13_Witness ==
    /\ \E o \in PregHandles(handles), n \in PregHandles(handles) :
          /\ handles[o].contents = handles[n].contents
          /\ handles[n].realized
          /\ ~handles[o].realized
          /\ Location(rc, handles[o]) # <<"UnrealizedHandle">>
    /\ \E p \in Guests : OwnersOf(handles, "preg", p) = {} /\ rc.m_guests_host_register[p] # RAX

\* ---- C14
\* The mode of a request is subsumed by the recorded read/write flags.
ModeSubsumed(c, mode) ==
    /\ mode \in {"Read", "ReadWrite"} => c.read
    /\ mode \in {"Write", "ReadWrite"} => c.write

\* The realized locations the handles of a kind can live with.
AllowedLocs(kind) ==
    CASE kind = "Use" -> {"Bound", "Imm", "Mem"}
      [] kind = "UseNoImm" -> {"Bound", "Mem"}
      [] kind = "BindOrImm" -> {"Bound", "Imm"}
      [] kind \in {"Bind", "RevertableBind"} -> {"Bound"}

\* The request (kind, mode) on the realized record of preg in s is accepted
\* exactly when `accepted` says so, fails with ConstraintConflict otherwise,
\* and leaves the record as it is.
AcceptedExactly(s, preg, kind, mode, accepted) ==
    /\ Ok(TakeHandle(s, kind, preg, mode)) <=> accepted
    /\ ~accepted => TakeHandle(s, kind, preg, mode).err = "ConstraintConflict"
    /\ TakeHandle(s, kind, preg, mode).m_guests_constraints[preg]
           = s.m_guests_constraints[preg]

\* C14 as stated: a handle taken on a realized guest register is accepted if
\* and only if its mode is subsumed, the realized location is one its kind
\* allows and its revertability equals the recorded flag; the record is
\* unchanged either way.
C14_CompatibleIffEqualRevertable ==
    \A p \in Guests, kind \in HandleKinds, mode \in Modes :
        IsRealized(rc.m_guests_constraints[p]) =>
            AcceptedExactly(rc, p, kind, mode,
                /\ ModeSubsumed(rc.m_guests_constraints[p], mode)
                /\ rc.m_guests_constraints[p].realized \in AllowedLocs(kind)
                /\ KindRevertable(kind) = rc.m_guests_constraints[p].revertable)

\* C14 amended: ... and, if the handle is revertable, the recorded
\* revertable flag is set (a handle that is not revertable is accepted on a
\* revertable record); the record is unchanged either way.
C14_CompatibleIffRevertableCovered ==
    \A p \in Guests, kind \in HandleKinds, mode \in Modes :
        IsRealized(rc.m_guests_constraints[p]) =>
            AcceptedExactly(rc, p, kind, mode,
                /\ ModeSubsumed(rc.m_guests_constraints[p], mode)
                /\ rc.m_guests_constraints[p].realized \in AllowedLocs(kind)
                /\ KindRevertable(kind) => rc.m_guests_constraints[p].revertable)

\* A live handle has realized a revertable record, on which a Bind is
\* accepted and a request of another mode is refused.
C14_Witness ==
    \E p \in Guests, mode \in Modes, other \in Modes :
        /\ rc.m_guests_constraints[p].realized = "Bound"
        /\ rc.m_guests_constraints[p].revertable
        /\ rc.m_guests_locked[p] > 0
        /\ Ok(TakeHandle(rc, "Bind", p, mode))
        /\ TakeHandle(rc, "RevertableBind", p, other).err = "ConstraintConflict"

\* ---- C15
\* The cache r after a second handle Bind(preg, mode) was taken and realized:
\* the call succeeded, preg is bound, the record says Bound and no host
\* register has a lock more than in s.
UpgradedToBound(s, r, preg) ==
    /\ Ok(r)
    /\ preg \in r.m_guests_in_host_register
    /\ r.m_guests_constraints[preg].realized = "Bound"
    /\ r.m_hosts_locked = s.m_hosts_locked

\* C15: when a live handle has realized a guest register in memory and a
\* second handle is requested with Bind, in a mode the record covers, taking
\* and realizing the second handle binds the register, stamps the record
\* Bound and adds no lock to a host register.
C15_BindUpgradesMem ==
    \A p \in Guests, mode \in Modes, js \in JitStates :
        /\ rc.m_guests_locked[p] > 0
        /\ rc.m_guests_constraints[p].realized = "Mem"
        /\ ModeSubsumed(rc.m_guests_constraints[p], mode)
        => UpgradedToBound(rc, Realize(TakeHandle(rc, "Bind", p, mode), p, js), p)

\* ---- C16
\* No allocatable host register of s is free and unlocked, and every
\* unlocked one is bound to a locked guest register.
NothingToGive(s) ==
    \A x \in GetAllocatableRegisters :
        \/ x \in s.m_hosts_is_locked
        \/ /\ x \notin s.m_hosts_free
           /\ \E p \in s.m_guests_in_host_register \cap s.m_guests_is_locked :
                 s.m_guests_host_register[p] = x

\* The call that produced r on s failed with OutOfRegisters and spilled and
\* bound nothing.
RanOutUntouched(s, r) ==
    /\ r.err = "OutOfRegisters"
    /\ r.emitted = s.emitted
    /\ Fork(r) = Fork(s)

\* The requests for a host register on s fail with OutOfRegisters:
\* GetFreeXReg returns no register, Scratch() and the realization of a
\* binding handle on a register that is not bound spill and bind nothing.
RequestsRunOut(s) ==
    /\ \A js \in JitStates :
          /\ GetFreeXReg(s, js).xr = INVALID_REG
          /\ RanOutUntouched(s, GetFreeXReg(s, js).st)
          /\ RanOutUntouched(s, Scratch(s, js).st)
    /\ \A p \in Guests \ s.m_guests_in_host_register, mode \in Modes, js \in JitStates :
          RanOutUntouched(TakeHandle(s, "Bind", p, mode),
                          Realize(TakeHandle(s, "Bind", p, mode), p, js))

\* The caches in which a further handle is alive beside those of s.
OneMoreHandle(s) ==
    {s} \cup {r \in TakeHandleCalls(s) \cup ScratchXCalls(s) : Ok(r)}

\* C16: when no allocatable host register is free and unlocked and every
\* unlocked one is bound to a locked guest register, a request for a host
\* register (GetFreeXReg, Scratch(), a realization that must bind) fails
\* with OutOfRegisters; no register is returned, nothing is spilled and no
\* binding is created.
C16_OutOfRegisters ==
    \A s \in OneMoreHandle(rc) : NothingToGive(s) => RequestsRunOut(s)

\* Every allocatable host register is locked or bound to a locked guest
\* register once one more handle is taken, a guest register is left
\* without host register, and Scratch() fails.
C16_Witness ==
    \E s \in OneMoreHandle(rc) :
        /\ NothingToGive(s)
        /\ Guests \ s.m_guests_in_host_register # {}
        /\ s.m_guests_is_locked # {}
        /\ \E js \in JitStates : Scratch(s, js).st.err = "OutOfRegisters"

\* ---- C17
\* The block-begin state: every guest register in its default location,
\* unbound, not revertable, unlocked and unconstrained; every host register
\* free, with lock count 0 and not reported locked.
BlockBegin(s) ==
    /\ s.m_guests_in_default_location = Guests
    /\ s.m_guests_in_host_register = {}
    /\ s.m_guests_revertable = {}
    /\ \A p \in Guests : s.m_guests_locked[p] = 0 /\ s.m_guests_constraints[p] = NoConstraint
    /\ s.m_guests_is_locked = {}
    /\ s.m_hosts_free = Hosts
    /\ \A x \in Hosts : s.m_hosts_locked[x] = 0
    /\ s.m_hosts_is_locked = {}

\* C17: Start(), called in any reachable state, leaves the cache in the
\* block-begin state.
C17_StartGivesBlockBegin == BlockBegin(Start(rc))

\* ---- C18
\* The sets of guest registers of s that are all bound and dirty and that
\* Flush accepts: none is locked or revertable, no host register is locked.
DirtyBoundSets(s) ==
    {S \in SUBSET (s.m_guests_in_host_register \ s.m_guests_in_default_location) :
        /\ S # {}
        /\ S \cap LockedOrRevertable(s) = {}
        /\ s.m_hosts_is_locked = {}}

\* The code of r is one store per register of S, from its host register to
\* its default location, and every register of S is bound as in s.
StoredAndStillBound(s, r, S) ==
    /\ Ok(r)
    /\ Len(r.emitted) = Cardinality(S)
    /\ \A p \in S :
          /\ \E k \in 1 .. Len(r.emitted) :
                r.emitted[k] = <<"store_reg", p, s.m_guests_host_register[p]>>
          /\ BoundTo(r, p, s.m_guests_host_register[p])

\* C18 as stated: Flush(S, MaintainState) on bound dirty registers emits one
\* store per register, leaves each bound to the same host register and
\* leaves each in_default_location flag set.
C18_MaintainStateCleans ==
    \A S \in DirtyBoundSets(rc), ign \in IgnoreDiscarded :
        /\ StoredAndStillBound(rc, Flush(rc, S, "MaintainState", ign), S)
        /\ S \subseteq Flush(rc, S, "MaintainState", ign).m_guests_in_default_location

\* C18 amended: Flush(S, MaintainState) on bound dirty registers emits one
\* store per register and leaves the cache as it was: each register stays
\* bound to the same host register and stays dirty (in_default_location
\* false).
C18_MaintainStateKeepsDirty ==
    \A S \in DirtyBoundSets(rc), ign \in IgnoreDiscarded :
        /\ StoredAndStillBound(rc, Flush(rc, S, "MaintainState", ign), S)
        /\ S \cap Flush(rc, S, "MaintainState", ign).m_guests_in_default_location = {}
        /\ Fork(Flush(rc, S, "MaintainState", ign)) = Fork(rc)

\* Two guest registers are bound and dirty and can be flushed together.
C18_Witness ==
    \E S \in DirtyBoundSets(rc) :
        /\ Cardinality(S) > 1
        /\ Ok(Flush(rc, S, "MaintainState", "No"))

\* ---- C19
\* The cache r after the revert of preg on s: preg is in its default
\* location, bound to no host register and not revertable, and the host
\* register it occupied is free.
Reverted(s, r, preg) ==
    /\ Ok(r)
    /\ preg \in r.m_guests_in_default_location
    /\ preg \notin r.m_guests_in_host_register
    /\ \A x \in Hosts : ~BoundTo(r, preg, x)
    /\ s.m_guests_host_register[preg] \in r.m_hosts_free
    /\ preg \notin r.m_guests_revertable

\* C19: once a RevertableBind on preg is realized and its handle released,
\* the revert path leaves preg in its default location, unbound and not
\* revertable, with the host register it occupied free; and the revert
\* path succeeds only on a register that is revertable and not locked.
C19_RevertRestores ==
    \A p \in Guests :
        /\ Ok(Revert(rc, p)) => p \in rc.m_guests_revertable /\ rc.m_guests_locked[p] = 0
        /\ (/\ p \in rc.m_guests_revertable \cap rc.m_guests_in_host_register
            /\ rc.m_guests_locked[p] = 0)
           => Reverted(rc, Revert(rc, p), p)

\* After three handle operations a register staged by RevertableBind is
\* bound, dirty and unlocked, and the revert path succeeds on it.
C19_Witness ==
    /\ steps = MaxHandleSteps
    /\ \E p \in Guests :
          /\ p \in rc.m_guests_revertable \cap rc.m_guests_in_host_register
          /\ p \notin rc.m_guests_in_default_location
          /\ rc.m_guests_locked[p] = 0
          /\ Ok(Revert(rc, p))

\* ---- C20
\* The invariants of the data model: a host register holds at most one
\* guest register, the two binding tables agree, the host register of a
\* bound guest register is not free, and every guest register has a location.
DataModelInvariants(s) ==
    /\ \A p \in s.m_guests_in_host_register, q \in s.m_guests_in_host_register :
          s.m_guests_host_register[p] = s.m_guests_host_register[q] => p = q
    /\ BindingSymmetry(s)
    /\ \A p \in s.m_guests_in_host_register : s.m_guests_host_register[p] \notin s.m_hosts_free
    /\ \A p \in Guests : HasLocation(s, p)

\* No bound guest register is locked or revertable, and the host register
\* of no bound guest register is locked.
NoBoundRegisterHeld(s) ==
    /\ s.m_guests_in_host_register \cap LockedOrRevertable(s) = {}
    /\ \A p \in s.m_guests_in_host_register :
          s.m_guests_host_register[p] \notin s.m_hosts_is_locked

\* C20 as stated: SanityCheck returns true exactly in the states that
\* satisfy the invariants of the data model; a live handle on a bound
\* register or a revertable bound register does not make it return false.
C20_SanityIsInvariants == SanityCheck(rc) <=> DataModelInvariants(rc)

\* C20 amended: the binding tables of every reachable state are consistent,
\* and SanityCheck returns true exactly when no bound register is locked or
\* revertable and no bound register's host register is locked; it returns
\* false while a handle on a bound register is alive, and it does not look
\* at location sufficiency.
C20_SanityIsNothingHeld ==
    /\ BindingSymmetry(rc)
    /\ SanityCheck(rc) <=> NoBoundRegisterHeld(rc)

\* A handle is alive on a bound register in a state that satisfies the
\* invariants of the data model, and SanityCheck returns false.
C20_Witness ==
    /\ rc.m_guests_in_host_register \cap rc.m_guests_is_locked # {}
    /\ DataModelInvariants(rc)
    /\ ~SanityCheck(rc)

\* ---- C21
\* Number of handles taken on one guest register before it is realized.
MaxContributors == 2

\* The requests (kind, mode) of the handles taken before the realization.
HandleCombos ==
    UNION {[1 .. n -> HandleKinds \X Modes] : n \in 1 .. MaxContributors}

\* The cache after the handles of hs were taken on preg, one after the other.
RECURSIVE TakeHandles(_, _, _)
TakeHandles(s, preg, hs) ==
    IF hs = << >> THEN s
    ELSE TakeHandle(TakeHandles(s, preg, SubSeq(hs, 1, Len(hs) - 1)),
                    hs[Len(hs)][1], preg, hs[Len(hs)][2])

\* The location r stamps on preg is allowed by every handle of hs; Imm is
\* stamped only on an immediate nobody writes, Mem only on a register that
\* was neither bound nor an immediate in t, the cache that was realized.
StampedWhereAllowed(t, r, preg, hs) ==
    Ok(r) =>
        /\ r.m_guests_constraints[preg].realized \in {"Bound", "Imm", "Mem"}
        /\ \A k \in 1 .. Len(hs) :
              r.m_guests_constraints[preg].realized \in AllowedLocs(hs[k][1])
        /\ r.m_guests_constraints[preg].realized = "Imm" =>
              IsImm(t, preg) /\ \A k \in 1 .. Len(hs) : hs[k][2] = "Read"
        /\ r.m_guests_constraints[preg].realized = "Mem" =>
              ~IsBound(t, preg) /\ ~IsImm(t, preg)

\* The ops under which a realization on t can differ: GetFreeXReg looks at
\* the current op in its heuristic loop only, when no register is free.
OpsToTry(t) == IF FreeRegisters(t) = {} THEN JitStates ELSE {FirstOp}

\* The realization of preg on the cache t in which the handles hs are alive.
RealizedWhereAllowed(t, preg, hs) ==
    \A js \in OpsToTry(t) : StampedWhereAllowed(t, Realize(t, preg, js), preg, hs)

\* C21: whatever handles are taken on a guest register before it is
\* realized, the location Realize stamps is one every contributing kind
\* allows (Bound only after a Bind or RevertableBind, never Imm after a
\* UseNoImm, never Mem after a BindOrImm); Imm is stamped only when the
\* register has an immediate and no write was requested, Mem only when the
\* register is neither bound nor an immediate.
C21_StampedLocationAllowed ==
    \A p \in Guests :
        rc.m_guests_locked[p] = 0 =>
            \A hs \in HandleCombos : RealizedWhereAllowed(TakeHandles(rc, p, hs), p, hs)

\* The location stamped on preg once the single handle (kind, Read) is
\* taken on s and realized.
StampedFor(s, preg, kind) ==
    Realize(TakeHandle(s, kind, preg, "Read"), preg, FirstOp).m_guests_constraints[preg].realized

\* One register has an immediate, which a Use leaves in place and a UseNoImm
\* materializes; another is in memory only, where a Use leaves it and a
\* BindOrImm does not.
C21_Witness ==
    \E p, q \in Guests :
        /\ rc.m_guests_locked[p] = 0 /\ rc.m_guests_locked[q] = 0
        /\ IsImm(rc, p)
        /\ StampedFor(rc, p, "Use") = "Imm"
        /\ StampedFor(rc, p, "UseNoImm") = "Bound"
        /\ ~IsImm(rc, q) /\ ~IsBound(rc, q)
        /\ StampedFor(rc, q, "Use") = "Mem"
        /\ StampedFor(rc, q, "BindOrImm") = "Bound"

\* ---- C22
\* The guest registers of s that carry an immediate and whose record, not
\* realized and not revertable, asks to write or to kill the immediate,
\* while a handle is alive on them.
ImmToMaterialize(s) ==
    {p \in Guests :
        /\ IsImm(s, p)
        /\ s.m_guests_locked[p] > 0
        /\ ~IsRealized(s.m_guests_constraints[p])
        /\ ~s.m_guests_constraints[p].revertable
        /\ s.m_guests_constraints[p].write \/ s.m_guests_constraints[p].kill_imm}

\* What the host register of preg holds once the code of r has run.
HostValue(r, preg) ==
    Exec(r.emitted, InitialContents).xval[r.m_guests_host_register[preg]]

\* The successful realization r of preg on s left preg bound, stamped Bound.
MaterializedBound(s, r, preg) ==
    /\ preg \in r.m_guests_in_host_register
    /\ r.m_guests_host_register[preg] \notin r.m_hosts_free
    /\ r.m_hosts_guest_reg[r.m_guests_host_register[preg]] = preg
    /\ r.m_guests_constraints[preg].realized = "Bound"

\* As stated: the host register holds the immediate and the immediate
\* record is cleared.
MaterializedAndCleared(s, r, preg) ==
    Ok(r) =>
        /\ MaterializedBound(s, r, preg)
        /\ ~IsBound(s, preg) => HostValue(r, preg) = <<"i", s.gpr_const[preg]>>
        /\ ~IsImm(r, preg)

\* As coded: the immediate is loaded when read is requested, and the
\* immediate record is cleared when write is requested.
MaterializedAsRequested(s, r, preg) ==
    Ok(r) =>
        /\ MaterializedBound(s, r, preg)
        /\ ~IsBound(s, preg) =>
              HostValue(r, preg) =
                  IF s.m_guests_constraints[preg].read
                  THEN <<"i", s.gpr_const[preg]>>
                  ELSE <<"x", r.m_guests_host_register[preg]>>
        /\ IsImm(r, preg) <=> ~s.m_guests_constraints[preg].write
        /\ IsImm(r, preg) => r.gpr_const[preg] = s.gpr_const[preg]

\* C22 as stated: realizing a non-revertable guest register that carries an
\* immediate, with the write flag or the kill_imm flag set, leaves it bound
\* to a host register that holds the immediate's value, with the immediate
\* record cleared and the record stamped Bound.
C22_ImmMaterializedAndCleared ==
    \A p \in ImmToMaterialize(rc), js \in JitStates :
        MaterializedAndCleared(rc, Realize(rc, p, js), p)

\* C22 amended: ... leaves it bound and stamped Bound; the host register
\* holds the immediate's value exactly when read was requested (a write-only
\* bind loads nothing), and the immediate record is cleared exactly when
\* write was requested (UseNoImm in Read mode keeps IsImm true).
C22_ImmMaterializedAsRequested ==
    \A p \in ImmToMaterialize(rc), js \in JitStates :
        MaterializedAsRequested(rc, Realize(rc, p, js), p)

\* A UseNoImm in Read mode is alive on an immediate that is not bound; its
\* realization binds the register and keeps the immediate.
C22_Witness ==
    \E p \in ImmToMaterialize(rc) :
        /\ ~IsBound(rc, p)
        /\ rc.m_guests_constraints[p].kill_imm
        /\ rc.m_guests_constraints[p].read
        /\ ~rc.m_guests_constraints[p].write
        /\ Ok(Realize(rc, p, FirstOp))
        /\ IsBound(Realize(rc, p, FirstOp), p)
        /\ IsImm(Realize(rc, p, FirstOp), p)

\* ---- C23
\* The guest registers of s on which a revertable request waits to be
\* realized.
RevertableToRealize(s) ==
    {p \in Guests :
        /\ s.m_guests_locked[p] > 0
        /\ ~IsRealized(s.m_guests_constraints[p])
        /\ s.m_guests_constraints[p].revertable}

\* The value of preg in s, named by where it is held before any code runs:
\* its slot, else its host register, else its immediate.
CurrentValue(s, preg) ==
    IF preg \in s.m_guests_in_default_location THEN <<"m", preg>>
    ELSE IF IsBound(s, preg) THEN <<"x", s.m_guests_host_register[preg]>>
    ELSE IF IsImm(s, preg) THEN <<"i", s.gpr_const[preg]>>
    ELSE <<"discarded">>

\* The first step of the revertable branch of Realize: the Undirty store.
Staged(s, preg) == StoreFromRegister(s, preg, "Undirty", "No")

\* The second step: do_bind on the cache the store left.
Rebound(s, t, preg, js) ==
    Realized(BindToRegister(t, preg, s.m_guests_constraints[preg].read,
                            s.m_guests_constraints[preg].write, js),
             preg, "Bound")

\* The instructions of code that load the host register xr.
LoadsInto(code, xr) ==
    {k \in 1 .. Len(code) : code[k][1] \in {"load_imm", "load_mem"} /\ code[k][2] = xr}

\* After the store (cache t) memory holds the value preg had in s: a store
\* of preg was emitted iff preg was not in its default location, preg is
\* bound as it was and is not revertable yet.
StoredFirst(s, t, preg) ==
    /\ Ok(t)
    /\ StoredPregs(t.emitted) =
           IF preg \in s.m_guests_in_default_location THEN << >> ELSE <<preg>>
    /\ Exec(t.emitted, InitialContents).mem[preg] = CurrentValue(s, preg)
    /\ IsBound(s, preg) => BoundTo(t, preg, s.m_guests_host_register[preg])
    /\ ~IsBound(s, preg) => ~IsBound(t, preg)
    /\ preg \notin t.m_guests_revertable

\* After do_bind (cache b, reached from t) preg is bound and stamped Bound,
\* a register that had to be bound was loaded iff read was requested, and
\* preg is not revertable yet.
BoundSecond(s, t, b, preg) ==
    /\ Ok(b)
    /\ \E xr \in GetAllocatableRegisters : BoundTo(b, preg, xr)
    /\ b.m_guests_constraints[preg].realized = "Bound"
    /\ LoadsInto(b.emitted, b.m_guests_host_register[preg]) # {} <=>
           (~IsBound(t, preg) /\ s.m_guests_constraints[preg].read)
    /\ preg \notin b.m_guests_revertable

\* The realization r of preg on s is do_bind on the stored cache followed
\* by the entry into the revertable set, and when preg enters the set its
\* value of s is in its slot.
RevertableLast(s, b, r, preg) ==
    /\ r = SetRevertable(b, preg)
    /\ preg \in r.m_guests_revertable
    /\ r.m_guests_revertable = s.m_guests_revertable \cup {preg}
    /\ Exec(r.emitted, InitialContents).mem[preg] = CurrentValue(s, preg)

\* The three steps of a successful realization r of preg on s.
StoredBoundRevertable(s, r, preg, js) ==
    Ok(r) =>
        /\ StoredFirst(s, Staged(s, preg), preg)
        /\ BoundSecond(s, Staged(s, preg), Rebound(s, Staged(s, preg), preg, js), preg)
        /\ RevertableLast(s, Rebound(s, Staged(s, preg), preg, js), r, preg)

ToStore(s, S) ==
    {p \in S \ s.m_guests_in_default_location : IsBound(s, p) \/ IsImm(s, p)}

\* The code of r is one store for each register of `stored`, in increasing
\* order, each from where s holds the value, and nothing else.
OnlyStoresOf(s, r, stored) ==
    /\ StoredPregs(r.emitted) = SetToSeq(stored)
    /\ Len(r.emitted) = Cardinality(stored)
    /\ \A k \in 1 .. Len(r.emitted) :
          r.emitted[k] =
              IF IsBound(s, r.emitted[k][2])
              THEN <<"store_reg", r.emitted[k][2], s.m_guests_host_register[r.emitted[k][2]]>>
              ELSE <<"store_imm", r.emitted[k][2], s.gpr_const[r.emitted[k][2]]>>

\* A successful call r on s changed no member of the cache and no
\* immediate, and emitted the stores of `stored` only.
UntouchedButStores(s, r, stored) ==
    Ok(r) =>
        /\ [r EXCEPT !.emitted = s.emitted] = s
        /\ OnlyStoresOf(s, r, stored)

\* C24: Flush(S, MaintainState) leaves the whole cache untouched: bindings,
\* in-default-location flags, revertable flags, free flags, bound guest
\* registers and lock counts are as before; its only effect is the stores
\* it emits for the registers of S that were not in their default location.
C24_MaintainStateFrame ==
    \A S \in SUBSET Guests, ign \in IgnoreDiscarded :
        UntouchedButStores(rc, Flush(rc, S, "MaintainState", ign), ToStore(rc, S))

\* A set with a bound dirty register, a dirty immediate and a register in
\* its default location is flushed in MaintainState mode: two stores.
C24_Witness ==
    \E p, q, c \in Guests :
        /\ IsBound(rc, p) /\ p \notin rc.m_guests_in_default_location
        /\ ~IsBound(rc, q) /\ IsImm(rc, q) /\ q \notin rc.m_guests_in_default_location
        /\ c \in rc.m_guests_in_default_location
        /\ Ok(Flush(rc, {p, q, c}, "MaintainState", "No"))
        /\ Len(Flush(rc, {p, q, c}, "MaintainState", "No").emitted) = 2

\* ---- C25
\* The call r on s changed nothing but the in-default-location flags of the
\* registers of S, which are now set, and emitted nothing.
OnlyMarkedDefault(s, r, S) ==
    /\ Ok(r)
    /\ S \subseteq r.m_guests_in_default_location
    /\ r.m_guests_in_default_location \ S = s.m_guests_in_default_location \ S
    /\ r.emitted = s.emitted
    /\ r.m_guests_in_host_register = s.m_guests_in_host_register
    /\ r.m_guests_host_register = s.m_guests_host_register
    /\ r.m_hosts_guest_reg = s.m_hosts_guest_reg
    /\ r.m_hosts_free = s.m_hosts_free
    /\ r.m_guests_locked = s.m_guests_locked /\ r.m_guests_is_locked = s.m_guests_is_locked
    /\ r.m_hosts_locked = s.m_hosts_locked /\ r.m_hosts_is_locked = s.m_hosts_is_locked
    /\ r.m_guests_revertable = s.m_guests_revertable
    /\ r.m_guests_constraints = s.m_guests_constraints
    /\ r.gpr_const = s.gpr_const

\* C25: Reset(S) fails with ResetOfBoundRegister whenever a register of S
\* is bound; otherwise it marks every register of S as in its default
\* location, emits no store and leaves bindings, free flags, locks, the
\* revertable set and the registers outside S unchanged.
C25_ResetEffect ==
    \A S \in SUBSET Guests :
        IF S \cap rc.m_guests_in_host_register # {}
        THEN Reset(rc, S).err = "ResetOfBoundRegister"
        ELSE OnlyMarkedDefault(rc, Reset(rc, S), S)

\* One register is bound and another one is neither bound nor in its
\* default location: Reset refuses the first and marks the second.
C25_Witness ==
    \E p, q \in Guests :
        /\ IsBound(rc, p)
        /\ ~IsBound(rc, q) /\ q \notin rc.m_guests_in_default_location
        /\ ~Ok(Reset(rc, {p, q}))
        /\ q \in Reset(rc, {q}).m_guests_in_default_location

\* ---- C26
\* The guest registers the call that produced r on s has bound.
NewlyBound(s, r) == r.m_guests_in_host_register \ s.m_guests_in_host_register

\* The successful call r of PreloadRegisters on s took one free register
\* per register it bound, spilled nothing and loaded each from memory.
PreloadTookFree(s, r) ==
    /\ s.m_guests_in_host_register \subseteq r.m_guests_in_host_register
    /\ NumFreeRegisters(r) = NumFreeRegisters(s) - Cardinality(NewlyBound(s, r))
    /\ Len(r.emitted) = Cardinality(NewlyBound(s, r))
    /\ \A k \in 1 .. Len(r.emitted) :
          r.emitted[k][1] = "load_mem" /\ r.emitted[k][3] \in NewlyBound(s, r)

\* C26 as stated: whenever PreloadRegisters has bound a register, at least
\* two free, unlocked, allocatable host registers remain when it returns.
C26_TwoFreeAfterPreload ==
    \A S \in SUBSET Guests, js \in JitStates :
        (Ok(PreloadRegisters(rc, S, js)) /\ NewlyBound(rc, PreloadRegisters(rc, S, js)) # {})
            => NumFreeRegisters(PreloadRegisters(rc, S, js)) >= 2

\* The count of free registers the loop saw before it bound the last
\* register was at least two, and nothing is bound from fewer.
TwoFreeBeforeEachBind(s, r) ==
    Ok(r) =>
        /\ PreloadTookFree(s, r)
        /\ NewlyBound(s, r) # {} => NumFreeRegisters(r) + 1 >= 2
        /\ NumFreeRegisters(s) < 2 => [r EXCEPT !.emitted = s.emitted] = s

\* C26 amended: PreloadRegisters(S) binds a register only if at least two
\* free, unlocked, allocatable host registers are available before that
\* bind; whenever it has bound a register at least one such host register
\* is still free when it returns, and it spills nothing.
C26_TwoFreeBeforePreload ==
    \A S \in SUBSET Guests, js \in JitStates :
        TwoFreeBeforeEachBind(rc, PreloadRegisters(rc, S, js))

\* PreloadRegisters binds two registers and stops with one host register
\* free and a register of the set left in memory.
C26_Witness ==
    \E S \in SUBSET Guests :
        /\ Ok(PreloadRegisters(rc, S, FirstOp))
        /\ Cardinality(NewlyBound(rc, PreloadRegisters(rc, S, FirstOp))) = 2
        /\ NumFreeRegisters(PreloadRegisters(rc, S, FirstOp)) = 1
        /\ S \ PreloadRegisters(rc, S, FirstOp).m_guests_in_host_register # {}

\* ---- C27
R12 == 12

\* xr is the first register of `order` that is in the set free.
FirstInOrder(order, free, xr) ==
    \E k \in 1 .. Len(order) :
        /\ order[k] = xr
        /\ xr \in free
        /\ \A j \in 1 .. (k - 1) : order[j] \notin free

\* GetFreeXReg on s returned (in g) the first free register of the
\* allocation order, emitted nothing and left the cache as it was.
ReturnedFirstFree(s, g) ==
    /\ FirstInOrder(ALLOCATION_ORDER, FreeRegisters(s), g.xr)
    /\ g.st = s

\* The orders of the two banks as the source lists them: of two free
\* registers, FirstFreeRegister returns the one listed first.
OrdersAsListed ==
    /\ FullAllocationOrder[1] = R12
    /\ SubSeq(FullAllocationOrder, 1, Len(ALLOCATION_ORDER) - 1)
           = SubSeq(ALLOCATION_ORDER, 1, Len(ALLOCATION_ORDER) - 1)
    /\ \A i \in 1 .. Len(ALLOCATION_ORDER), j \in 1 .. Len(ALLOCATION_ORDER) :
          FirstFreeRegister({ALLOCATION_ORDER[i], ALLOCATION_ORDER[j]})
              = ALLOCATION_ORDER[Min(i, j)]
    /\ \A i \in 1 .. Len(FPU_ALLOCATION_ORDER), j \in 1 .. Len(FPU_ALLOCATION_ORDER) :
          /\ FPUFirstFreeRegister({FPU_ALLOCATION_ORDER[i], FPU_ALLOCATION_ORDER[j]})
                 = FPU_ALLOCATION_ORDER[Min(i, j)]
          /\ FPU_ALLOCATION_ORDER[i] = IF i <= 10 THEN 5 + i ELSE i - 9

\* The first bind after Start() on s: guest register preg is bound to R12.
FirstBindUsesR12(s, preg, mode, js) ==
    BoundTo(Realize(TakeHandle(Begin(Start(s)), "Bind", preg, mode), preg, js), preg, R12)

\* C27: whenever an allocatable host register is free and unlocked,
\* GetFreeXReg returns the first such register in the allocation order of
\* the bank (GPR: R12, R13, R14, R15, RSI, RDI, R8, R9, R10, R11, RCX; FPR:
\* XMM6 .. XMM15, then XMM2 .. XMM5), emits no store and changes no binding;
\* the first bind after Start() uses R12.
C27_FirstFreeInOrder ==
    /\ OrdersAsListed
    /\ \A js \in JitStates :
          FreeRegisters(rc) # {} => ReturnedFirstFree(rc, GetFreeXReg(rc, js))
    /\ NumHandles(rc) = 0 =>
          \A p \in Guests, mode \in Modes, js \in JitStates :
              FirstBindUsesR12(rc, p, mode, js)

\* R12 is taken while a later register of the order and RCX, the register
\* with the lowest number, are free: GetFreeXReg returns the former.
C27_Witness ==
    /\ R12 \notin FreeRegisters(rc)
    /\ Cardinality(FreeRegisters(rc)) > 1
    /\ GetFreeXReg(rc, FirstOp).xr \in FreeRegisters(rc)
    /\ \E x \in FreeRegisters(rc) : x < GetFreeXReg(rc, FirstOp).xr

\* ---- C28
\* The candidates of s with the minimum clobber score.
MinScoreCandidates(s, js) ==
    {x \in SpillCandidates(s) :
        \A y \in SpillCandidates(s) : ScoreRegister(s, x, js) <= ScoreRegister(s, y, js)}

\* GetFreeXReg on s returned (in g) the candidate with the minimum score
\* that comes first in the allocation order, after storing its guest register.
SpilledFirstOfMinimum(s, g, js) ==
    /\ FirstInOrder(ALLOCATION_ORDER, MinScoreCandidates(s, js), g.xr)
    /\ g.st = StoreFromRegister(s, s.m_hosts_guest_reg[g.xr], "Full", "No")

\* C28: when no allocatable host register is free and unlocked, GetFreeXReg
\* spills the candidate with the minimum clobber score among the
\* allocatable, unlocked host registers whose guest register is not locked;
\* among several candidates with the minimum score it picks the one that
\* comes first in the allocation order.
C28_SpillFirstInOrder ==
    \A js \in JitStates :
        (FreeRegisters(rc) = {} /\ SpillCandidates(rc) # {})
            => SpilledFirstOfMinimum(rc, GetFreeXReg(rc, js), js)

\* ---- C29
\* The guest registers of a bank: the most the lookahead can count.
NUM_GUEST_REGS == 32

\* The ops after the current one that the lookahead visits for preg: those
\* within min(instructionsLeft, 64), up to the first one that reads preg.
LookedAt(js, preg) ==
    {i \in 1 .. (Min(js.instructionsLeft, 64) - 1) :
        \A j \in 1 .. (i - 1) : preg \notin Block[js.op + j].regsIn}

\* k: the number of distinct guest registers those ops read.
DistinctRegsRead(js, preg) ==
    Cardinality(UNION {Block[js.op + i].regsIn : i \in LookedAt(js, preg)})

\* The two terms of the score of the host register xreg of s.
DirtyTerm(s, xreg) ==
    IF s.m_hosts_guest_reg[xreg] \notin s.m_guests_in_default_location THEN 2 ELSE 0

IsUsedNow(s, xreg, js) == s.m_hosts_guest_reg[xreg] \in GetRegUtilization(js)

\* C29 as stated: the score of every candidate is 2 if its guest register
\* is not in its default location, plus 1 + 2 * (6 - floor(log2(1 + k))) if
\* the instruction uses the guest register; the integer arithmetic of the
\* implementation gives this value for every k in 0 .. 32.
C29_ScoreWithLog2 ==
    /\ \A k \in 0 .. NUM_GUEST_REGS : UseBias(k) = 1 + 2 * (6 - FloorLog2(1 + k))
    /\ \A x \in SpillCandidates(rc), js \in JitStates :
          ScoreRegister(rc, x, js) =
              DirtyTerm(rc, x)
                  + (IF IsUsedNow(rc, x, js)
                     THEN 1 + 2 * (6 - FloorLog2(1 + DistinctRegsRead(js, rc.m_hosts_guest_reg[x])))
                     ELSE 0)

\* C29 amended: ... plus 1 + 2 * (5 - floor(log2(1 + k))) if the
\* instruction uses the guest register, where k counts the distinct guest
\* registers read by the following ops up to and including the one that
\* reads the register again; for every k in 0 .. 32 the integer arithmetic
\* gives this value, which is never below 1.
C29_ScoreWithBitWidth ==
    /\ \A k \in 0 .. NUM_GUEST_REGS :
          UseBias(k) = 1 + 2 * (5 - FloorLog2(1 + k)) /\ UseBias(k) >= 1
    /\ \A x \in SpillCandidates(rc), js \in JitStates :
          ScoreRegister(rc, x, js) =
              DirtyTerm(rc, x)
                  + (IF IsUsedNow(rc, x, js)
                     THEN 1 + 2 * (5 - FloorLog2(1 + DistinctRegsRead(js, rc.m_hosts_guest_reg[x])))
                     ELSE 0)

\* A candidate is dirty and used by the instruction, with two other
\* registers read before the block ends: its score is 2 + 9.
C29_Witness ==
    \E x \in SpillCandidates(rc), js \in JitStates :
        /\ x \notin rc.m_hosts_free
        /\ DirtyTerm(rc, x) = 2
        /\ IsUsedNow(rc, x, js)
        /\ DistinctRegsRead(js, rc.m_hosts_guest_reg[x]) = 2
        /\ ScoreRegister(rc, x, js) = 11

\* ---- C30
\* The record of every guest register of s without a live handle is empty.
ActiveOnlyIfLocked(s) ==
    \A p \in Guests : IsActive(s.m_guests_constraints[p]) => s.m_guests_locked[p] > 0

\* The release r of a handle on preg in s: the last one clears the record
\* and the lock, any other one leaves the record and keeps preg locked; the
\* records of the other registers are not touched.
ReleaseClearsAtZero(s, r, preg) ==
    /\ Ok(r)
    /\ r.m_guests_locked[preg] = s.m_guests_locked[preg] - 1
    /\ IF s.m_guests_locked[preg] = 1
       THEN /\ r.m_guests_constraints[preg] = NoConstraint
            /\ preg \notin r.m_guests_is_locked
       ELSE /\ r.m_guests_constraints[preg] = s.m_guests_constraints[preg]
            /\ preg \in r.m_guests_is_locked
    /\ \A q \in Guests \ {preg} :
          r.m_guests_constraints[q] = s.m_guests_constraints[q]

\* C30: in every reachable state the constraint record of a guest register
\* is active (a flag set or a location stamped) only if its lock count is
\* positive; the record is cleared by the release that brings the count to
\* zero and by no release that leaves another handle alive.
C30_ActiveOnlyWhileLocked ==
    /\ ActiveOnlyIfLocked(rc)
    /\ \A p \in Guests :
          rc.m_guests_locked[p] > 0 =>
              /\ ReleaseClearsAtZero(rc, Unlock(rc, p), p)
              /\ ActiveOnlyIfLocked(Unlock(rc, p))

\* Two handles are alive on a register whose record is active; one release
\* keeps the record, the second clears it.
C30_Witness ==
    \E p \in Guests :
        /\ rc.m_guests_locked[p] = 2
        /\ IsActive(rc.m_guests_constraints[p])
        /\ IsActive(Unlock(rc, p).m_guests_constraints[p])
        /\ ~IsActive(Unlock(Unlock(rc, p), p).m_guests_constraints[p])

\* ---- C31
\* The positions in m_branch_infos of the branches the active region
\* optimizes, and of those among them that come before position k.
SelectedPositions ==
    {k \in 1 .. Len(walk.block) :
        Contains(inBlockBranchStatus.optimized_branches_i, walk.block[k].address_i)}

SelectedBefore(k) == {j \in SelectedPositions : j < k}

\* The union of one field of the footprints of the branches at positions ks.
FootprintOver(ks, field) ==
    UNION {CASE field = "regsIn" -> walk.block[k].regsIn
             [] field = "regsOut" -> walk.block[k].regsOut
             [] field = "fregsIn" -> walk.block[k].fregsIn
             [] field = "fregsOut" -> walk.block[k].fregsOut : k \in ks}

RegsUsedOver(ks) ==
    [regsIn |-> FootprintOver(ks, "regsIn"), regsOut |-> FootprintOver(ks, "regsOut"),
     fregsIn |-> FootprintOver(ks, "fregsIn"), fregsOut |-> FootprintOver(ks, "fregsOut")]

\* The greatest end of the branches at positions ks.
EndOver(ks) ==
    CHOOSE e \in {GetEnd_i(walk.block[k]) : k \in ks} :
        \A k \in ks : GetEnd_i(walk.block[k]) <= e

\* The footprint the status records is that of exactly the selected branches.
FootprintOfSelected ==
    /\ inBlockBranchStatus.regsIn = FootprintOver(SelectedPositions, "regsIn")
    /\ inBlockBranchStatus.regsOut = FootprintOver(SelectedPositions, "regsOut")
    /\ inBlockBranchStatus.fregsIn = FootprintOver(SelectedPositions, "fregsIn")
    /\ inBlockBranchStatus.fregsOut = FootprintOver(SelectedPositions, "fregsOut")

WithinBudget ==
    /\ Cardinality(inBlockBranchStatus.regsIn \cup inBlockBranchStatus.regsOut)
          <= GetMaxPreloadableRegisters
    /\ Cardinality(inBlockBranchStatus.fregsIn \cup inBlockBranchStatus.fregsOut)
          <= FPRMaxPreloadableRegisters

\* The branch at position k was a candidate when the scan came to it: it
\* stays in the block, follows a selected branch and starts before the end
\* of the run selected so far.
WasCandidate(k) ==
    /\ SelectedBefore(k) # {}
    /\ walk.block[k].direction # "Outside"
    /\ GetStart_i(walk.block[k]) < EndOver(SelectedBefore(k))

\* The branch at position k fitted the budget when the scan came to it.
Fitted(k) ==
    AreThereEnoughHostRegs(CombineBranchInfo(RegsUsedOver(SelectedBefore(k)), walk.block[k]))

\* A candidate is left out exactly when it does not fit; the candidates
\* after it are still looked at.
OnlyMisfitsLeftOut ==
    \A k \in 1 .. Len(walk.block) :
        WasCandidate(k) => (k \in SelectedPositions <=> Fitted(k))

\* C31: whenever a region is active, the footprint the status records is the
\* union of the footprints of exactly the branches of optimized_branches_i,
\* it fits the preload budget of both banks, and a candidate branch is left
\* out of the region exactly when adding it would exceed a budget, the
\* candidates after it being looked at all the same.
C31_FootprintWithinBudget ==
    IsInBlockBranchActive(inBlockBranchStatus) =>
        /\ FootprintOfSelected
        /\ WithinBudget
        /\ OnlyMisfitsLeftOut

\* A region is active in which a candidate was left out for the budget and
\* a later candidate was selected.
C31_Witness ==
    /\ IsInBlockBranchActive(inBlockBranchStatus)
    /\ \E j, k \in 1 .. Len(walk.block) :
          /\ j < k
          /\ WasCandidate(j) /\ ~Fitted(j) /\ j \notin SelectedPositions
          /\ WasCandidate(k) /\ k \in SelectedPositions

\* ---- C32
\* The op at which the walker entered the region that is active: the op of
\* the last region entry of the log.
EnteredAt ==
    LET entries == {n \in 1 .. Len(walk.log) : walk.log[n].e = "Enter"}
    IN  walk.log[CHOOSE n \in entries : \A m \in entries : m <= n].op

\* The branch at position k lies inside the region that started at op s.
LiesInside(k, s) ==
    /\ s <= Min(walk.block[k].address_i, walk.block[k].branchTo_i)
    /\ Min(walk.block[k].address_i, walk.block[k].branchTo_i) < inBlockBranchStatus.value
    /\ (IF walk.block[k].direction = "Forward"
        THEN walk.block[k].branchTo_i
        ELSE walk.block[k].address_i + 1) <= inBlockBranchStatus.value

\* ends_at is the greatest end of the selected branches: the target of a
\* forward branch, the op after a backward branch.
EndsAtGreatestEnd ==
    /\ \E k \in SelectedPositions :
          inBlockBranchStatus.value =
             (IF walk.block[k].direction = "Forward"
              THEN walk.block[k].branchTo_i
              ELSE walk.block[k].address_i + 1)
    /\ \A k \in SelectedPositions :
          (IF walk.block[k].direction = "Forward"
           THEN walk.block[k].branchTo_i
           ELSE walk.block[k].address_i + 1) <= inBlockBranchStatus.value

\* C32: in a region that started at op s, ends_at is the maximum over the
\* selected branches of branchTo_i for a forward branch and address_i + 1 for
\* a backward one, no selected branch leaves the block, every entry of
\* optimized_branches_i is a branch of the block, and every selected branch
\* lies inside the region: s <= min(address_i, branchTo_i) < ends_at and its
\* own end is at most ends_at.
C32_RegionBounds ==
    IsInBlockBranchActive(inBlockBranchStatus) =>
        /\ Len(inBlockBranchStatus.optimized_branches_i) = Cardinality(SelectedPositions)
        /\ EndsAtGreatestEnd
        /\ \A k \in SelectedPositions :
              /\ walk.block[k].direction \in {"Forward", "Backward"}
              /\ LiesInside(k, EnteredAt)

\* A region with a forward and a backward branch selected, whose end is the
\* op after the backward branch and beyond the target of the forward one,
\* in a block with a branch that leaves the block from inside the region.
C32_Witness ==
    /\ IsInBlockBranchActive(inBlockBranchStatus)
    /\ \E j, k \in SelectedPositions :
          /\ walk.block[j].direction = "Forward"
          /\ walk.block[k].direction = "Backward"
          /\ walk.block[j].branchTo_i < inBlockBranchStatus.value
    /\ \E o \in 1 .. Len(walk.block) :
          /\ walk.block[o].direction = "Outside"
          /\ EnteredAt <= walk.block[o].address_i
          /\ walk.block[o].address_i < inBlockBranchStatus.value

\* ---- C40
\* What TryPrepareInBlockBranches does when it is called on the op the
\* walker is at, from the walker (the op's cycles newly counted) or from
\* TryInBlockBranch.
PreparedByWalker ==
    TryPrepareInBlockBranches(Entered(walk.downcountAmount + CurrentOp.num_cycles),
                              walk.block, CurrentOp)

PreparedByBranch == TryPrepareInBlockBranches(Entered(walk.downcountAmount), walk.block, CurrentOp)

\* The call returned true exactly if it left a region active.
TrueIffActive(co) == Ok(co.rc) => (co.ret <=> IsInBlockBranchActive(co.status))

\* The call on an idle coordinator at an op that is neither a branch nor a
\* branch target returned false and left the status, the cache, the emitted
\* code and the counted cycles as they were.
IdleAtPlainOp(entry, op) ==
    ~IsInBlockBranchActive(entry.status) /\ ~op.isBranch /\ ~op.isBranchTarget

NothingDone(entry, co) ==
    /\ ~co.ret
    /\ co.status = entry.status
    /\ co.rc = entry.rc
    /\ co.downcountAmount = entry.downcountAmount

\* C40: TryPrepareInBlockBranches(op) returns true if and only if a region
\* is active when it returns, and on an idle coordinator at an op that is
\* neither a branch nor a branch target it returns false without changing
\* the status or the cache and without emitting code.
C40_TrueIffActive ==
    walk.i < NumOps =>
        /\ TrueIffActive(PreparedByWalker)
        /\ TrueIffActive(PreparedByBranch)
        /\ IdleAtPlainOp(Entered(walk.downcountAmount), CurrentOp) =>
              /\ NothingDone(Entered(walk.downcountAmount + CurrentOp.num_cycles),
                             PreparedByWalker)
              /\ NothingDone(Entered(walk.downcountAmount), PreparedByBranch)

\* The walker has called TryPrepareInBlockBranches on an op that is neither
\* a branch nor a branch target, with no region active and registers bound,
\* after the coordinator was at work on an earlier op; the call returned false.
C40_Witness ==
    /\ walk.i < NumOps
    /\ walk.pc = "emit"
    /\ ~CurrentOp.isBranch /\ ~CurrentOp.isBranchTarget
    /\ ~IsInBlockBranchActive(inBlockBranchStatus)
    /\ ~walk.ret
    /\ rc.m_guests_in_host_register # {}
    /\ walk.log # << >>
    /\ walk.log[Len(walk.log)].op < walk.i

\* ---- C33
\* What the coordinator did in the step, in its order.
NewLog == SubSeq(walk'.log, Len(walk.log) + 1, Len(walk'.log))

\* The places of the step's log where a region was ended.
EndsIn(log) == {n \in 1 .. Len(log) : log[n].e = "EndInBlockBranch"}

\* While a region is active the walker has not passed its end: an op still
\* to be prepared is at most ends_at, a prepared op is before it.
NotPastEnd(w, status) ==
    IsInBlockBranchActive(status) =>
        IF w.pc = "prepare" THEN w.i <= status.value ELSE w.i < status.value

\* The order of the call that ended the region at place n of log: the
\* barriers of the op, all of them handled, then the region deactivated,
\* then the flush, and only then the search for a region starting at the op.
EndedInOrder(log, n, i) ==
    /\ n > 1
    /\ \A m \in 1 .. (n - 2) : log[m].e \in {"SUB", "SetJumpTarget", "Backwards"}
    /\ log[n - 1].e = "HandleBarriers"
    /\ \A m \in 1 .. Len(log) : log[m].op = i
    /\ Len(log) > n
    /\ log[n + 1].e = "Flush"
    /\ \A m \in (n + 2) .. Len(log) :
          log[m].e \in (IF m = n + 2 THEN {"Select"}
                        ELSE {"Enter", "SUB", "SetJumpTarget", "Backwards", "HandleBarriers"})

\* The cache s holds no register outside inUse but those of set.
FlushedBut(s, inUse, set) ==
    \A p \in Guests \ (inUse \cup set) :
        p \notin s.m_guests_in_host_register /\ p \in s.m_guests_in_default_location

\* What is left of the region that ended at op: nothing if no region began
\* at the op (no branch optimized, no fixup, no recorded address, no
\* register fixed, every register the op does not use flushed); otherwise
\* the new region only, forked from a cache that had been flushed.
NothingLeft(s, status, op, ret) ==
    IF ~ret
    THEN status = NoInBlockBranch /\ FlushedBut(s, op.gprInUse, {})
    ELSE /\ DOMAIN status.forward_fixups = {}
         /\ DOMAIN status.backwards_addresses \subseteq {op.i}
         /\ status.fixed = status.regsIn \cup status.regsOut
         /\ status.ffixed = status.fregsIn \cup status.fregsOut
         /\ status.gpr_guard.m_regs.in_host_register
               \subseteq (op.gprInUse \cup status.regsIn \cup status.regsOut)

EndsAtItsEnd ==
    /\ NotPastEnd(walk', inBlockBranchStatus')
    /\ \A n \in EndsIn(NewLog) :
          /\ IsInBlockBranchActive(inBlockBranchStatus)
          /\ walk.pc = "prepare"
          /\ walk.i = inBlockBranchStatus.value
          /\ EndedInOrder(NewLog, n, walk.i)
          /\ NothingLeft(rc', inBlockBranchStatus', CurrentOp, walk'.ret)
    /\ (IsInBlockBranchActive(inBlockBranchStatus) /\ walk.pc = "prepare"
          /\ walk.i = inBlockBranchStatus.value) => EndsIn(NewLog) # {}
    /\ (IsInBlockBranchActive(inBlockBranchStatus) /\ EndsIn(NewLog) = {}) =>
          /\ IsInBlockBranchActive(inBlockBranchStatus')
          /\ inBlockBranchStatus'.value = inBlockBranchStatus.value
          /\ inBlockBranchStatus'.optimized_branches_i
                = inBlockBranchStatus.optimized_branches_i

\* C33: with TryPrepareInBlockBranches called on every op in increasing
\* order, the walker never passes ends_at while the region is active, the
\* region stays as it is until the op whose index is ends_at and ends at
\* that op; there the barriers of the op are handled first, then the region
\* is deactivated and both banks unfixed, then every register the op does
\* not use is flushed, and only then a new region is looked for at the op.
C33_RegionEndsAtEnd == [][EndsAtItsEnd]_vars

\* A region ended at an op at which a forward fixup was patched, and another
\* region began at the same op.
C33_Witness ==
    \E n \in EndsIn(walk.log) :
        /\ \E m \in 1 .. (n - 1) :
              walk.log[m].e = "SetJumpTarget" /\ walk.log[m].op = walk.log[n].op
        /\ \E k \in (n + 1) .. Len(walk.log) :
              walk.log[k].e = "Enter" /\ walk.log[k].op = walk.log[n].op
        /\ rc.m_guests_in_host_register # {}

\* ---- C34
\* The place of the log where the region that is active, or was active
\* last, was entered; 0 if none was.
LastEntry ==
    LET entries == {n \in 1 .. Len(walk.log) : walk.log[n].e = "Enter"}
    IN  IF entries = {} THEN 0 ELSE CHOOSE n \in entries : \A m \in entries : m <= n

\* The SUBs on the downcount emitted for op i since that entry, and the
\* times the barriers of op i were handled since then.
SubsSince(i) ==
    {n \in (LastEntry + 1) .. Len(walk.log) :
        walk.log[n].e = "SUB" /\ walk.log[n].op = i}

HandledSince(i) ==
    {n \in (LastEntry + 1) .. Len(walk.log) :
        walk.log[n].e = "HandleBarriers" /\ walk.log[n].op = i}

\* Op i is a barrier of the region: an optimized branch targets it.
IsBarrierOp(i) ==
    \E k \in 1 .. Len(walk.block) :
        IsBarrierOf(inBlockBranchStatus, walk.block[k], CodeOp(walk.block, i))

\* C34: for each barrier op of an active region exactly one SUB on the
\* downcount is emitted, however many optimized branches target the op and
\* however many times the coordinator is entered for it, and while the op
\* is compiled js.downcountAmount is the cycle count of the op.
C34_OneSubPerBarrier ==
    IsInBlockBranchActive(inBlockBranchStatus) =>
        \A i \in Ops :
            (IsBarrierOp(i) /\ HandledSince(i) # {}) =>
                /\ Cardinality(SubsSince(i)) = 1
                /\ (walk.i = i => walk.downcountAmount = CodeOp(walk.block, i).num_cycles)

\* ---- C35
\* The recompiler is about to analyze a block.
InitLive ==
    /\ rc = Begin(FillRegisters(Start(Constructed), NumAlloc, FirstOp))
    /\ steps = 0
    /\ inBlockBranchStatus = NoInBlockBranch
    /\ handles = [o \in Objects |-> NoObject]
    /\ walk = [NoWalk EXCEPT !.pc = "analyze"]

\* The analyzer hands the walker a block.
WalkBegins ==
    /\ walk.pc = "analyze"
    /\ walk' \in {[NoWalk EXCEPT !.block = infos] : infos \in CodeBlocks}
    /\ steps' = steps + 1
    /\ UNCHANGED <<rc, inBlockBranchStatus, handles>>

NextLive ==
    \/ WalkBegins
    \/ WalkPrepares
    \/ WalkEmitsBranch
    \/ WalkEmitsOp

\* The recompiler compiles the block to its end: while an op is left, the
\* walker takes its next step.
WalkGoesOn == (walk.pc = "analyze" \/ walk.i < NumOps) /\ steps' = steps + 1

WalkLive == InitLive /\ [][NextLive]_vars /\ WF_steps(WalkGoesOn)

\* No call the walker is about to make fails an assertion or throws.
NoCallFails ==
    (walk.pc # "analyze" /\ walk.i < NumOps) =>
        IF walk.pc = "prepare" THEN Ok(PreparedByWalker.rc)
        ELSE IF CurrentOp.isBranch
        THEN Ok(TryInBlockBranch(Entered(walk.downcountAmount), walk.block, CurrentOp).rc)
        ELSE \E r \in OpCalls(rc, CurrentOp) : Ok(r) /\ FixedKept(rc, r, inBlockBranchStatus)

\* TryInBlockBranch has registered a fixup for the branch at op a, and its
\* target is not set.
Unpatched(a) ==
    /\ a \in DOMAIN inBlockBranchStatus.forward_fixups
    /\ inBlockBranchStatus.forward_fixups[a] = NoTarget

\* The fixup of the branch at op a was resolved while the barriers of the
\* branch's target were handled, to the address that follows the SUB of the
\* barrier.
Patched(a) ==
    \E n \in 1 .. Len(walk.log) :
        /\ walk.log[n].e = "SetJumpTarget"
        /\ walk.log[n].branch = a
        /\ walk.log[n].op = BranchAt(walk.block, a).branchTo_i
        /\ walk.log[n].at > 0
        /\ rc.emitted[walk.log[n].at][1] = "SUB"

\* No step drops a fixup whose target is not set.
NoFixupDropped == \A a \in Ops : Unpatched(a) => (Unpatched(a)' \/ Patched(a)')

\* C35: every forward fixup TryInBlockBranch registers for an optimized
\* forward branch at op a is eventually patched: when the walker reaches
\* the target of the branch, and before the region is deactivated, it is
\* resolved to the address of the barrier emitted at that op; no call on
\* the way fails, so the walker does reach the target.
C35_FixupEventuallyPatched ==
    /\ \A a \in Ops : Unpatched(a) ~> Patched(a)
    /\ [][NoFixupDropped]_vars
    /\ []NoCallFails

\* The fixup of a forward branch was patched at its target, and the region
\* is over.
C35_Witness ==
    /\ ~IsInBlockBranchActive(inBlockBranchStatus)
    /\ \E a \in Ops : Patched(a)

\* ---- C36
\* The emission of the op the walker is at is about to call TryInBlockBranch
\* for a backward branch the active region optimizes.
AtOptimizedBackwardBranch ==
    /\ walk.i < NumOps
    /\ walk.pc = "emit"
    /\ CurrentOp.isBranch
    /\ IsInBlockBranchActive(inBlockBranchStatus)
    /\ Contains(inBlockBranchStatus.optimized_branches_i, walk.i)
    /\ BranchAt(walk.block, walk.i).direction = "Backward"

\* The addresses the barriers of op t recorded in log since the region was
\* entered at place entry of it.
RecordedSince(log, entry, t) ==
    {log[n].at : n \in {m \in (entry + 1) .. Len(log) :
                          log[m].e = "Backwards" /\ log[m].op = t}}

\* The call for the branch to op t returns co: the lookup has succeeded, and
\* the address returned is the one backwards_addresses holds for t, recorded
\* by a barrier of t in the region.
LookupSucceeds(co, t) ==
    /\ Ok(co.rc)
    /\ co.result = <<"address", co.status.backwards_addresses[t]>>
    /\ co.status.backwards_addresses[t] \in RecordedSince(co.log, LastEntry, t)

\* C36: whenever TryInBlockBranch is called for an optimized backward branch,
\* a barrier of the same region has already recorded the address of the
\* branch's target in backwards_addresses, so the lookup succeeds and returns
\* an address recorded at a barrier of the target.
C36_BackwardTargetRecorded ==
    AtOptimizedBackwardBranch =>
        /\ BranchAt(walk.block, walk.i).branchTo_i
              \in DOMAIN inBlockBranchStatus.backwards_addresses
        /\ RecordedSince(walk.log, LastEntry, BranchAt(walk.block, walk.i).branchTo_i) # {}
        /\ LookupSucceeds(TryInBlockBranch(Entered(walk.downcountAmount), walk.block,
                                           CurrentOp),
                          BranchAt(walk.block, walk.i).branchTo_i)

\* A backward branch to an earlier op has been emitted with the address its
\* target's barrier recorded, in a region that optimizes another branch too.
C36_Witness ==
    /\ walk.i > 0
    /\ walk.pc = "prepare"
    /\ walk.result[1] = "address"
    /\ \E k \in SelectedPositions :
          /\ walk.block[k].address_i = walk.i - 1
          /\ walk.block[k].branchTo_i < walk.i - 1
          /\ walk.result[2] \in RecordedSince(walk.log, LastEntry, walk.block[k].branchTo_i)
    /\ Cardinality(SelectedPositions) > 1

\* ---- C37
\* The guest registers with a handle whose Realize() is still to come.
ToRealize(s) ==
    {p \in Guests : s.m_guests_locked[p] > 0 /\ ~IsRealized(s.m_guests_constraints[p])}

\* The operand R(p) returns in s, as the Location() of a realized RCOpArg.
OperandOf(s, p) == Location(s, PregHandle("Use", p))

\* The stamp of p in s agrees with the operand R(p) returns in s; for a
\* register that was discarded R(p) fails its assertion and returns none.
StampAgrees(s, p) ==
    CASE s.m_guests_constraints[p].realized = "Bound" -> OperandOf(s, p)[1] = "R"
      [] s.m_guests_constraints[p].realized = "Imm" -> OperandOf(s, p)[1] = "Imm32"
      [] s.m_guests_constraints[p].realized = "Mem" ->
            OperandOf(s, p) \in {<<"Mem", p>>, <<"Missing">>}
      [] OTHER -> FALSE

\* C37: after Realize(p) the stamped realized_at agrees with the kind of
\* operand R(p) returns in the same state: Bound with a host register, Imm
\* with an immediate, Mem with the default memory location of p, also for a
\* register that is bound while it still carries an immediate.
C37_StampAgreesWithOperand ==
    \A p \in ToRealize(rc) : \A js \in JitStates :
        Ok(Realize(rc, p, js)) => StampAgrees(Realize(rc, p, js), p)

\* ---- C38
\* The guest registers bound to the host register x in s.
GuestsBoundTo(s, x) == {p \in s.m_guests_in_host_register : s.m_guests_host_register[p] = x}

\* The host registers some guest register is bound to in s.
BoundHosts(s) == {s.m_guests_host_register[p] : p \in s.m_guests_in_host_register}

\* C38: in every reachable state a host register is marked not free if and
\* only if exactly one guest register is bound to it, every bound guest
\* register is in an allocatable host register, and RegistersInUse() is the
\* set of the host registers that are bound to a guest register or locked.
C38_NotFreeIffBound ==
    /\ \A x \in Hosts : x \notin rc.m_hosts_free <=> Cardinality(GuestsBoundTo(rc, x)) = 1
    /\ BoundHosts(rc) \subseteq GetAllocatableRegisters
    /\ RegistersInUse(rc) = BoundHosts(rc) \cup rc.m_hosts_is_locked

\* Every allocatable host register is bound to a guest register and a host
\* register that no guest register is bound to is locked.
C38_Witness ==
    /\ BoundHosts(rc) # {}
    /\ rc.m_hosts_is_locked \ BoundHosts(rc) # {}
    /\ rc.m_hosts_free \cap GetAllocatableRegisters = {}

\* ---- C39
\* Scratch(xr), where it succeeds, leaves no guest register bound to xr: the
\* guest register that occupied xr is written back and unbound.
ScratchUnbinds(s) ==
    \A xr \in Hosts :
        \E r \in {ScratchX(s, xr)} :
            Ok(r) =>
                /\ xr \in r.m_hosts_is_locked
                /\ GuestsBoundTo(r, xr) = {}
                /\ \A p \in GuestsBoundTo(s, xr) :
                       /\ p \notin r.m_guests_in_host_register
                       /\ p \in r.m_guests_in_default_location

\* The host registers a scratch handle holds a lock on.
HeldByScratch(s) == {x \in Hosts : s.m_hosts_locked[x] > 0} \cup s.m_hosts_is_locked

\* C39: while a scratch handle holds a lock on a host register, no guest
\* register is bound to that host register: taking the scratch writes back
\* and unbinds the guest register that occupied it, and no later call binds
\* a guest register to a locked host register.
C39_NoBindingToLockedHost ==
    /\ HeldByScratch(rc) \cap BoundHosts(rc) = {}
    /\ ScratchUnbinds(rc)

\* Scratch(xr) took a host register that a guest register occupied, and
\* afterwards every other allocatable host register was bound while the
\* scratch handle lived.
C39_Witness ==
    /\ \E x \in GetAllocatableRegisters :
          /\ rc.m_hosts_locked[x] > 0
          /\ rc.m_hosts_guest_reg[x] \in rc.m_guests_in_default_location
          /\ GetAllocatableRegisters \ {x} \subseteq BoundHosts(rc)
    /\ \E xr \in Hosts : GuestsBoundTo(rc, xr) # {} /\ Ok(ScratchX(rc, xr))

=============================================================================
